---- MODULE Spec2Model ----
(***************************************************************************)
(* A model of the enlib map-making core: the Rangelist interval algebra    *)
(* (rangelist.py), the signal-based equation system Eqsys (mapmaking.py)   *)
(* and the mask-carrying LinearSystemMap (map_equation.py).                *)
(*                                                                         *)
(* Each subsystem has its own specification (SpecRange, ...); the          *)
(* variables of the other subsystems stay at their initial values.         *)
(***************************************************************************)
EXTENDS Integers, Sequences, FiniteSets, TLC

VARIABLES
    rl,        \* the current Rangelist: [n |-> Int, ranges |-> Seq(<<from, to>>)]
    rlPrev,    \* the Rangelist the last operation was applied to
    rlPrev2,   \* the Rangelist the operation before that was applied to
    rlOps,     \* the kinds of the operations applied so far, oldest first
    rlExpect,  \* after a slice: the dense mask numpy gives for to_mask(rlPrev)[sel]
    rlSel,     \* the slice of the last R[sel], or None
    rlOrigin,  \* "mask": built from a dense mask; "ranges": built from an explicit list
    rlMask     \* the dense mask the Rangelist was built from (<<>> when built from ranges)

rvars == <<rl, rlPrev, rlPrev2, rlOps, rlExpect, rlSel, rlOrigin, rlMask>>

VARIABLES
    eq_cfg,    \* the Eqsys as constructed: [signals, nscans, absent, weights, filters, filters2]
    eq_pc,     \* where the current invocation of A / calc_b stands
    eq_call,   \* the current or last invocation: [op, itod, b0], b0 being self.b when it began
    eq_si,     \* the scan the loop over self.scans is at (1-based)
    eq_k,      \* the signal the inner loop is at (1-based)
    eq_log,    \* the calls issued by the current invocation, in order
    eq_pix,    \* per signal: whether its self.pix / self.phase attributes exist
    eq_tod,    \* the contents of tod, as the list of what was written into it
    eq_itod,   \* the contents of the caller's array handed to calc_b
    eq_work,   \* per signal: owork, as the list of scans projected into it
    eq_noise,  \* per scan: scan.noise, as the number of refits that produced it
    eq_calls,  \* the number of invocations begun
    eq_err,    \* the exception the current invocation raised, or "none"
    eq_b       \* Eqsys.b: None or the zipped maps

evars == <<eq_cfg, eq_pc, eq_call, eq_si, eq_k, eq_log, eq_pix, eq_tod, eq_itod,
           eq_work, eq_noise, eq_calls, eq_err, eq_b>>

VARIABLES
    ls_pc,     \* "unbuilt", "built", or "applied" while a result is held
    ls_precon, \* the precon argument of the LinearSystemMap: "bin", "cyc" or "sub"
    ls_div,    \* per pixel: div[0,0] and the condition number of the binned div_map
    ls_mask,   \* self.mask
    ls_dof,    \* the mask self.dof packs the shared map with
    ls_b,      \* self.b
    ls_op,     \* the last application: "A", "M" or "none"
    ls_x,      \* its argument
    ls_raw,    \* the map mapeq.A / precon.apply returned for it
    ls_res     \* its result, a flat vector

lvars == <<ls_pc, ls_precon, ls_div, ls_mask, ls_dof, ls_b, ls_op, ls_x, ls_raw, ls_res>>

VARIABLES
    sc_pc,     \* where calc_crosslink_map / FilterBuddyPertod.__call__ stands
    sc_call,   \* the current or last call: [op, kind, absent, prec, scan]
    sc_i,      \* the scan the loop of calc_crosslink_map is at (1-based)
    sc_comps,  \* per scan: scan.comps
    sc_saved,  \* saved_comps of calc_crosslink_map
    sc_noise,  \* per scan: scan.noise, as the number of refits that produced it
    sc_old,    \* old_noise of FilterBuddyPertod.__call__, or None
    sc_pix,    \* whether the signal's self.pix / self.phase attributes exist
    sc_work,   \* what the call has accumulated into its output
    sc_err,    \* the exception the call raised, or "none"
    sc_before  \* the comps and noise models of the scans when the call began

svars == <<sc_pc, sc_call, sc_i, sc_comps, sc_saved, sc_noise, sc_old, sc_pix, sc_work,
           sc_err, sc_before>>

VARIABLES
    gr_pc,     \* "idle", "analyzed", "grouped" or "split"
    gr_info,   \* allinfo: the scan analyses, in order
    gr_groups, \* the groups of group_scans_by_scandirs, each a list of indices into allinfo
    gr_sub     \* the subgroups of split_disjoint_scan_groups, likewise

gvars == <<gr_pc, gr_info, gr_groups, gr_sub>>

VARIABLES
    pr_pc,     \* "idle", "built" or "applied"
    pr_kind,   \* the class of the preconditioner
    pr_div,    \* self.hits per pixel, or the diagonal P'W"P per entry
    pr_in,     \* the argument m of the call, as it was
    pr_out     \* m after the call

pvars == <<pr_pc, pr_kind, pr_div, pr_in, pr_out>>

VARIABLES
    mk_pc,     \* "idle", "div" or "masked"
    mk_blocks, \* per pixel: the diagonal of the block of self.div_map
    mk_mask    \* self.mask

mvars == <<mk_pc, mk_blocks, mk_mask>>

VARIABLES
    sb_pc,     \* "unbuilt", "built", "stepping" or "returned"
    sb_mask,   \* the mask of self.linsys.dof
    sb_in,     \* the arguments [map, junk] of apply
    sb_i,      \* solver.i: the steps the inner solver has taken
    sb_err,    \* solver.err, as "large", "small" or "zero"
    sb_small,  \* whether an earlier step of this call left a small or zero residual
    sb_x,      \* solver.x
    sb_out     \* what apply returned, or None

bvars == <<sb_pc, sb_mask, sb_in, sb_i, sb_err, sb_small, sb_x, sb_out>>

VARIABLES
    ro_pc,     \* per rank: "analyzed", "reduced" or "assigned"
    ro_size,   \* mapeq.comm.size
    ro_local,  \* per rank: scaninfo, the analyses of the rank's own scans
    ro_all,    \* per rank: allinfo
    ro_groups, \* per rank: groups after split_disjoint_scan_groups
    ro_mine    \* per rank: mygroups

ovars == <<ro_pc, ro_size, ro_local, ro_all, ro_groups, ro_mine>>

VARIABLES
    co_cfg,    \* what the ranks share: [op, signals, nareas, size]
    co_scans,  \* per rank: [n, absent], the number of local scans and the one no signal holds
    co_pc,     \* per rank: "start", "reduce", "waiting", "returned" or "raised"
    co_log     \* per rank: the collective calls the rank has entered, in order

cvars == <<co_cfg, co_scans, co_pc, co_log>>

VARIABLES
    up_pc,     \* "unbuilt" or "built"
    up_heap,   \* the LinearSystemMap instances made so far, each [scans, area, precon, upsys]
    up_first,  \* per instance: what its first access to upsys returned, or None
    up_last,   \* the last access: [sys, via, reads], reads being what each read of self.upsys gave
    up_n       \* the number of accesses so far

uvars == <<up_pc, up_heap, up_first, up_last, up_n>>

VARIABLES
    pa_pc,     \* "idle", "running", "returned" or "raised"
    pa_call,   \* the operation: [op, kind, nscans], kind being the class of its signal
    pa_scan,   \* the scan the loop is at
    pa_step,   \* the next step of the loop body
    pa_pix,    \* whether the signal's self.pix / self.phase exist
    pa_log     \* the calls made on the signal: [op, scan]

avars == <<pa_pc, pa_call, pa_scan, pa_step, pa_pix, pa_log>>

VARIABLES
    sy_pc,     \* "idle" or "grouped"
    sy_info,   \* the scan analyses, as the functions leave them
    sy_before, \* the scan analyses as analyze_scan returned them
    sy_groups, \* the groups of group_scans_by_scandirs
    sy_splits, \* the result of each run of split_disjoint_scan_groups, in order
    sy_sims    \* the result of each run of sim_scan_from_group over the subgroups, in order

yvars == <<sy_pc, sy_info, sy_before, sy_groups, sy_splits, sy_sims>>

VARIABLES
    cy_pc,     \* "idle", "measuring", "measured", "built" or "applied"
    cy_S0,     \* per pixel: eigpow(binned.div_map, -0.5) as the constructor computed it
    cy_S,      \* per pixel: the array S as it is now
    cy_pix,    \* the reference pixels, in order
    cy_i,      \* the number of reference pixels measured
    cy_used,   \* per measured reference pixel: [left, right], the factors its response got
    cy_self,   \* self.S, or None
    cy_mul     \* per pixel: what apply last multiplied the map by, or None

kvars == <<cy_pc, cy_S0, cy_S, cy_pix, cy_i, cy_used, cy_self, cy_mul>>

VARIABLES
    ju_pc,       \* "idle", "loop" or "done"
    ju_cls,      \* "SignalCut" or "MapEquation", the class being constructed
    ju_sizes,    \* per scan, in insertion order: the njunk of its PmatCut
    ju_ranges,   \* per scan handled so far: the range stored for it
    ju_cutrange, \* SignalCut.__init__: the local cutrange
    ju_run,      \* MapEquation.__init__: the local njunk
    ju_njunk     \* self.njunk, or None

jvars == <<ju_pc, ju_cls, ju_sizes, ju_ranges, ju_cutrange, ju_run, ju_njunk>>

vars == <<rvars, evars, lvars, svars, gvars, pvars, mvars, bvars, ovars, cvars, uvars, avars, yvars, kvars, jvars>>

\* the variables of the other subsystems
notRange == <<evars, lvars, svars, gvars, pvars, mvars, bvars, ovars, cvars, uvars, avars, yvars, kvars, jvars>>
notEqsys == <<rvars, lvars, svars, gvars, pvars, mvars, bvars, ovars, cvars, uvars, avars, yvars, kvars, jvars>>
notLinsys == <<rvars, evars, svars, gvars, pvars, mvars, bvars, ovars, cvars, uvars, avars, yvars, kvars, jvars>>
notScan == <<rvars, evars, lvars, gvars, pvars, mvars, bvars, ovars, cvars, uvars, avars, yvars, kvars, jvars>>
notGroup == <<rvars, evars, lvars, svars, pvars, mvars, bvars, ovars, cvars, uvars, avars, yvars, kvars, jvars>>
notPrecon == <<rvars, evars, lvars, svars, gvars, mvars, bvars, ovars, cvars, uvars, avars, yvars, kvars, jvars>>
notMask == <<rvars, evars, lvars, svars, gvars, pvars, bvars, ovars, cvars, uvars, avars, yvars, kvars, jvars>>
notSubmap == <<rvars, evars, lvars, svars, gvars, pvars, mvars, ovars, cvars, uvars, avars, yvars, kvars, jvars>>
notRobin == <<rvars, evars, lvars, svars, gvars, pvars, mvars, bvars, cvars, uvars, avars, yvars, kvars, jvars>>
notColl == <<rvars, evars, lvars, svars, gvars, pvars, mvars, bvars, ovars, uvars, avars, yvars, kvars, jvars>>
notLevels == <<rvars, evars, lvars, svars, gvars, pvars, mvars, bvars, ovars, cvars, avars, yvars, kvars, jvars>>
notPair == <<rvars, evars, lvars, svars, gvars, pvars, mvars, bvars, ovars, cvars, uvars, yvars, kvars, jvars>>
notSynth == <<rvars, evars, lvars, svars, gvars, pvars, mvars, bvars, ovars, cvars, uvars, avars, kvars, jvars>>
notCyc == <<rvars, evars, lvars, svars, gvars, pvars, mvars, bvars, ovars, cvars, uvars, avars, yvars, jvars>>
notJunk == <<rvars, evars, lvars, svars, gvars, pvars, mvars, bvars, ovars, cvars, uvars, avars, yvars, kvars>>

----------------------------------------------------------------------------
(* Bounds of the model *)

\* longest dense mask / largest Rangelist length n
MaxLen == 3
\* largest slice step magnitude
MaxStep == 2
\* longest sequence of Rangelist operations
MaxOps == 2
\* largest number of scans of an equation system
MaxScans == 2
\* largest number of invocations of A / calc_b on one equation system
MaxCalls == 2
\* number of pixels of a map
NPix == 1
\* largest number of scans handed to the scan grouping
MaxInfo == 3

\* config.default("precond_condition_lim", 10., ...)
precond_condition_lim == 10
\* group_scans_by_scandirs(info, vectol=0.1, postol=0.1): the tolerances, inverted
InvVectol == 10
InvPostol == 10

----------------------------------------------------------------------------
(* Small helpers *)

Max(a, b) == IF a >= b THEN a ELSE b
Min(a, b) == IF a <= b THEN a ELSE b

\* Python 2 integer division (floor) of a by a non-zero b
PyFloorDiv(a, b) == IF b > 0 THEN a \div b ELSE (0 - a) \div (0 - b)

\* An optional integer: <<>> is None, <<v>> is v
None == <<>>
Some(v) == <<v>>

RECURSIVE SeqFilterPos(_)
\* keep the intervals of positive length (res[res[:,1]-res[:,0]>0])
SeqFilterPos(s) ==
    IF Len(s) = 0 THEN <<>>
    ELSE IF s[1][2] - s[1][1] > 0 THEN <<s[1]>> \o SeqFilterPos(Tail(s))
         ELSE SeqFilterPos(Tail(s))

RECURSIVE SeqFilterNonEq(_)
\* drop the intervals whose ends are equal (np.delete(res, np.where(res[:,1]==res[:,0]),0))
SeqFilterNonEq(s) ==
    IF Len(s) = 0 THEN <<>>
    ELSE IF s[1][2] # s[1][1] THEN <<s[1]>> \o SeqFilterNonEq(Tail(s))
         ELSE SeqFilterNonEq(Tail(s))

----------------------------------------------------------------------------
(* rangelist.py *)

\* All dense boolean masks of length 0..MaxLen
Masks == UNION {[1..k -> BOOLEAN] : k \in 0..MaxLen}

\* enlib.utils.mask2range: the maximal runs of True of a dense mask, as
\* half-open 0-based [from, to) intervals in increasing order.
RECURSIVE mask2range_from(_, _)
mask2range_from(mask, k) ==
    \* k: 0-based position the scan is at
    IF k >= Len(mask) THEN <<>>
    ELSE IF ~mask[k + 1] THEN mask2range_from(mask, k + 1)
    ELSE LET stop == CHOOSE e \in (k + 1)..Len(mask) :
                        /\ \A q \in (k + 1)..e : mask[q]
                        /\ (e = Len(mask) \/ ~mask[e + 1])
         IN  <<<<k, stop>>>> \o mask2range_from(mask, stop)

mask2range(mask) == mask2range_from(mask, 0)

\* Rangelist.__init__ with a 2-d ranges array and n (the else branch, ndim # 1)
Rangelist(ranges, n) == [n |-> n, ranges |-> ranges]

\* Rangelist.__init__ with a dense 1-d mask
RangelistFromMask(mask) == [n |-> Len(mask), ranges |-> mask2range(mask)]

\* Rangelist.__len__
RangelistLen(R) == R.n

\* Python's index normalisation in a slice assignment res[r1:r2] on length n
PyIdx(i, n) == IF i < 0 THEN Max(i + n, 0) ELSE Min(i, n)

\* to_mask with the upper end of each interval taken one short (res[r1:r2-1])
to_mask_short(R) ==
    [k \in 1..R.n |->
        \E i \in DOMAIN R.ranges :
            /\ PyIdx(R.ranges[i][1], R.n) <= k - 1
            /\ k - 1 < PyIdx(R.ranges[i][2] - 1, R.n)]

\* Rangelist.to_mask: res = zeros(n); for r1,r2 in ranges: res[r1:r2] = True
to_mask(R) ==
    [k \in 1..R.n |->
        \E i \in DOMAIN R.ranges :
            /\ PyIdx(R.ranges[i][1], R.n) <= k - 1
            /\ k - 1 < PyIdx(R.ranges[i][2], R.n)]

RECURSIVE SumLens(_)
SumLens(s) == IF Len(s) = 0 THEN 0 ELSE (s[1][2] - s[1][1]) + SumLens(Tail(s))

\* Rangelist.sum
RangelistSum(R) == SumLens(R.ranges)

\* invert without the pruning of the empty gaps
invert_keep_empty(R) ==
    LET pad == <<<<0, 0>>>> \o R.ranges \o <<<<R.n, R.n>>>>
        res == [k \in 1..(Len(pad) - 1) |-> <<pad[k][2], pad[k + 1][1]>>]
    IN  Rangelist(res, R.n)

\* Rangelist.invert
invert(R) ==
    LET pad == <<<<0, 0>>>> \o R.ranges \o <<<<R.n, R.n>>>>
        res == [k \in 1..(Len(pad) - 1) |-> <<pad[k][2], pad[k + 1][1]>>]
    IN  Rangelist(SeqFilterNonEq(res), R.n)

\* np.searchsorted(a, v, side="right") on a sorted column a
searchsorted_right(a, v) == Cardinality({i \in DOMAIN a : a[i] <= v})
\* np.searchsorted(a, v, side="left") on a sorted column a
searchsorted_left(a, v) == Cardinality({i \in DOMAIN a : a[i] < v})

Col(ranges, c) == [k \in DOMAIN ranges |-> ranges[k][c]]

\* slice_helper(ranges, sel): sel is an expanded slice with positive step
slice_helper(ranges, sel) ==
    IF Len(ranges) = 0 THEN ranges
    ELSE
    LET i    == searchsorted_right(Col(ranges, 2), sel.start)
        res1 == IF i < Len(ranges)
                THEN [ranges EXCEPT ![i + 1] = <<Max(sel.start, @[1]), @[2]>>]
                ELSE ranges
        j    == searchsorted_left(Col(ranges, 1), sel.stop)
        res2 == IF j > 0
                THEN [res1 EXCEPT ![j] = <<@[1], Min(sel.stop, @[2])>>]
                ELSE res1
        res3 == SubSeq(res2, i + 1, j)
        res4 == [k \in DOMAIN res3 |->
                    << PyFloorDiv(res3[k][1] - sel.start, sel.step),
                       PyFloorDiv(res3[k][2] - sel.start + sel.step - 1, sel.step) >>]
    IN  SeqFilterPos(res4)

\* enlib.slice.expand_slice: defaults filled in and bounds clamped, as
\* Python's slice.indices does for non-negative start and stop
expand_slice(sel, n) ==
    IF sel.step > 0
    THEN [start |-> IF sel.start = None THEN 0 ELSE Min(sel.start[1], n),
          stop  |-> IF sel.stop  = None THEN n ELSE Min(sel.stop[1], n),
          step  |-> sel.step]
    ELSE [start |-> IF sel.start = None THEN n - 1 ELSE Min(sel.start[1], n - 1),
          stop  |-> IF sel.stop  = None THEN 0 - 1 ELSE Min(sel.stop[1], n - 1),
          step  |-> sel.step]

\* self.n-self.ranges[::-1,::-1]
ReverseRanges(R) ==
    [k \in DOMAIN R.ranges |->
        << R.n - R.ranges[Len(R.ranges) + 1 - k][2],
           R.n - R.ranges[Len(R.ranges) + 1 - k][1] >>]

\* Rangelist.__getitem__ with a slice argument
Rangelist_getitem(R, sel0) ==
    LET sel == expand_slice(sel0, R.n)
    IN  IF Len(R.ranges) = 0 THEN R
        ELSE IF (sel.stop - sel.start) * sel.step < 0 THEN Rangelist(<<>>, 0)
        ELSE IF sel.step > 0
        THEN Rangelist(slice_helper(R.ranges, sel),
                       PyFloorDiv(sel.stop - sel.start, sel.step))
        ELSE Rangelist(slice_helper(ReverseRanges(R),
                                    [start |-> sel.stop + 1, stop |-> sel.start + 1,
                                     step |-> 0 - sel.step]),
                       PyFloorDiv(sel.stop - sel.start, sel.step))

----------------------------------------------------------------------------
(* The Rangelist state machine *)

\* the slices a[start:stop:step] a caller can write on a Rangelist of length n
Slices(n) ==
    [start : {None} \cup {Some(v) : v \in 0..n},
     stop  : {None} \cup {Some(v) : v \in 0..n},
     step  : ((0 - MaxStep)..MaxStep) \ {0}]

\* interval lists that are sorted, non-empty, non-overlapping (they may touch)
\* and bounded by n: what a caller may hand to Rangelist(ranges, n)
RECURSIVE IntervalLists(_, _)
IntervalLists(lo, n) ==
    {<<>>} \cup
    UNION { { <<<<a, b>>>> \o rest : rest \in IntervalLists(b, n) }
            : <<a, b>> \in {p \in (lo..n) \X (lo..n) : p[1] < p[2]} }

\* np.searchsorted needs sorted columns
ColumnsSorted(ranges) ==
    \A k \in 1..(Len(ranges) - 1) :
        /\ ranges[k][1] <= ranges[k + 1][1]
        /\ ranges[k][2] <= ranges[k + 1][2]

\* numpy's a[start:stop:step] on a dense array a, for an expanded slice:
\* the elements at start, start+step, ... short of stop
NumpySliceLen(sel) ==
    IF sel.step > 0
    THEN IF sel.stop > sel.start
         THEN (sel.stop - sel.start + sel.step - 1) \div sel.step ELSE 0
    ELSE IF sel.stop < sel.start
         THEN (sel.start - sel.stop - sel.step - 1) \div (0 - sel.step) ELSE 0

NumpySlice(a, sel0) ==
    LET sel == expand_slice(sel0, Len(a))
    IN  [k \in 1..NumpySliceLen(sel) |-> a[sel.start + (k - 1) * sel.step + 1]]

RangeIdle ==
    /\ rl = Rangelist(<<>>, 0)
    /\ rlOrigin = "none"
    /\ rlMask = <<>>
    /\ rlPrev = rl
    /\ rlPrev2 = rl
    /\ rlOps = <<>>
    /\ rlExpect = <<>>
    /\ rlSel = None

\* R = Rangelist(mask) for a dense 1-d mask
RL_FromMask ==
    /\ rlOrigin = "none"
    /\ \E mask \in Masks :
        /\ rl' = RangelistFromMask(mask)
        /\ rlMask' = mask
    /\ rlOrigin' = "mask"
    /\ rlPrev' = rl'
    /\ rlPrev2' = rl'
    /\ UNCHANGED <<rlOps, rlExpect, rlSel>>
    /\ UNCHANGED notRange

\* R = Rangelist(ranges, n) for an explicit interval list
RL_FromRanges ==
    /\ rlOrigin = "none"
    /\ \E n \in 0..MaxLen : \E ranges \in IntervalLists(0, n) :
        rl' = Rangelist(ranges, n)
    /\ rlOrigin' = "ranges"
    /\ rlPrev' = rl'
    /\ rlPrev2' = rl'
    /\ UNCHANGED <<rlOps, rlExpect, rlSel, rlMask>>
    /\ UNCHANGED notRange

\* R[sel]
RL_Slice ==
    /\ rlOrigin # "none"
    /\ Len(rlOps) < MaxOps
    /\ ColumnsSorted(rl.ranges)
    /\ \E sel \in Slices(rl.n) :
        /\ rl' = Rangelist_getitem(rl, sel)
        /\ rlExpect' = NumpySlice(to_mask(rl), sel)
        /\ rlSel' = Some(sel)
    /\ rlOps' = Append(rlOps, "slice")
    /\ rlPrev' = rl
    /\ rlPrev2' = rlPrev
    /\ UNCHANGED <<rlOrigin, rlMask>>
    /\ UNCHANGED notRange

\* R.invert()
RL_Invert ==
    /\ rlOrigin # "none"
    /\ Len(rlOps) < MaxOps
    /\ rl' = invert(rl)
    /\ rlOps' = Append(rlOps, "invert")
    /\ rlPrev' = rl
    /\ rlPrev2' = rlPrev
    /\ UNCHANGED <<rlOrigin, rlMask, rlExpect, rlSel>>
    /\ UNCHANGED notRange

----------------------------------------------------------------------------
(* mapmaking.py: the signals *)

\* the signal classes
SignalKinds == {"cut", "map", "mapfast", "dmap", "dmapfast", "phase", "buddies"}

\* SignalMapFast and SignalDmapFast cache pix and phase between precompute and free
IsFast(kind) == kind \in {"mapfast", "dmapfast"}

\* `scan in self.data` for signal k of the system
InData(cfg, k, scan) == cfg.signals[k].all \/ scan # cfg.absent

\* <Signal>.precompute(scan): whether self.pix / self.phase exist afterwards
\* (Signal.precompute is `pass`; the fast variants return early for a scan
\* that is not in self.data)
precompute(kind, indata, haspix) ==
    IF IsFast(kind) /\ indata THEN TRUE ELSE haspix

\* <Signal>.free(): [raised, pix]. Signal.free is `pass`; the fast variants
\* run `del self.pix, self.phase`, an AttributeError when the attributes are not there
free(kind, haspix) ==
    IF IsFast(kind)
    THEN IF haspix THEN [raised |-> FALSE, pix |-> FALSE]
         ELSE [raised |-> TRUE, pix |-> FALSE]
    ELSE [raised |-> FALSE, pix |-> haspix]

\* <Signal>.forward(scan, tod, work): what tod holds afterwards
\* (`if scan not in self.data: return`, else the pointing matrix writes into tod)
forward(k, indata, tod) ==
    IF indata THEN Append(tod, <<"P", k>>) ELSE tod

\* <Signal>.backward(scan, tod, work): what work holds afterwards
backward(scan, indata, tod, work) ==
    IF indata THEN Append(work, <<scan, tod>>) ELSE work

\* the noise model's update(tod, srate), "returning a refitted model"
NoiseUpdate(noise) == noise + 1

----------------------------------------------------------------------------
(* mapmaking.py: Eqsys *)

\* the signal lists the model builds equation systems from: the cut signal
\* with each map-like signal, with and without a phase signal, and the same
\* with a non-cut signal listed before the cut signal
SignalLists ==
    {<<"cut", m>> : m \in SignalKinds \ {"cut"}}
    \cup {<<"cut", m, "phase">> : m \in {"map", "mapfast", "dmapfast"}}
    \cup {<<m, "cut">> : m \in {"map", "mapfast"}}
    \cup {<<"map", "phase", "cut">>}

\* a non-cut signal is listed before the cut signal
NonCutBeforeCut(kinds) ==
    \E i, j \in DOMAIN kinds : i < j /\ kinds[i] # "cut" /\ kinds[j] = "cut"

NSig == Len(eq_cfg.signals)
Scans == 1..eq_cfg.nscans
Kind(k) == eq_cfg.signals[k].kind

Event(op, k, scan, chg) == [op |-> op, sig |-> k, scan |-> scan, chg |-> chg]

RECURSIVE TagAll(_, _)
\* for f in fs: f(scan, tod)
TagAll(tod, fs) == IF Len(fs) = 0 THEN tod ELSE TagAll(Append(tod, Head(fs)), Tail(fs))

\* a list left in its order
Reverse_Same(s) == s

\* s[::-1]
Reverse(s) == [i \in DOMAIN s |-> s[Len(s) + 1 - i]]

CallEvents(op, fs, scan) == [i \in DOMAIN fs |-> Event(op, 0, scan, TRUE)]

\* the signals in list order, zip(self.signals, iwork) without the [::-1]
A_ForwardOrder_Listed(n) == [i \in 1..n |-> i]

\* the order in which A projects the signals forward: zip(self.signals, iwork)[::-1]
A_ForwardOrder(n) == [i \in 1..n |-> n + 1 - i]

\* an order that projects back onto the first signal only
A_BackwardOrder_First(n) == [i \in 1..n |-> 1]

\* the order in which A projects the tod back: zip(self.signals, owork)
A_BackwardOrder(n) == [i \in 1..n |-> i]

EqsysIdle ==
    /\ eq_cfg = [signals |-> <<>>, nscans |-> 0, absent |-> 0,
                 weights |-> <<>>, filters |-> <<>>, filters2 |-> <<>>]
    /\ eq_pc = "unbuilt"
    /\ eq_call = [op |-> "none", itod |-> FALSE, b0 |-> None]
    /\ eq_si = 0
    /\ eq_k = 0
    /\ eq_log = <<>>
    /\ eq_pix = <<>>
    /\ eq_tod = <<>>
    /\ eq_itod = <<>>
    /\ eq_work = <<>>
    /\ eq_noise = <<>>
    /\ eq_calls = 0
    /\ eq_err = "none"
    /\ eq_b = None

\* Eqsys.__init__(scans, signals, filters, filters2, weights): stores its
\* arguments and builds the zipper; the signals arrive already constructed,
\* each with its own data map
Eqsys_Init ==
    /\ eq_pc = "unbuilt"
    /\ \E kinds \in SignalLists, n \in 0..MaxScans, ws \in {<<>>, <<"w1", "w2">>} :
       \E absent \in 0..n, alls \in [DOMAIN kinds -> BOOLEAN] :
            eq_cfg' = [signals  |-> [k \in DOMAIN kinds |-> [kind |-> kinds[k], all |-> alls[k]]],
                       nscans   |-> n,
                       absent   |-> absent,
                       weights  |-> ws,
                       filters  |-> <<"f1", "f2">>,
                       filters2 |-> <<"g1", "g2">>]
    /\ eq_pix' = [k \in DOMAIN eq_cfg'.signals |-> FALSE]
    /\ eq_work' = [k \in DOMAIN eq_cfg'.signals |-> <<>>]
    /\ eq_noise' = [s \in 1..eq_cfg'.nscans |-> 0]
    /\ eq_pc' = "idle"
    /\ eq_b' = None
    /\ UNCHANGED <<eq_call, eq_si, eq_k, eq_log, eq_tod, eq_itod, eq_calls, eq_err>>
    /\ UNCHANGED notEqsys

\* A(x), "A_init": unzip x, zero the output maps, prepare the work arrays
A_Begin ==
    /\ eq_pc \in {"idle", "returned", "raised"}
    /\ eq_err \notin {"ReadError", "FitError"}   \* a failed read or fit ends the run
    /\ eq_calls < MaxCalls
    /\ eq_calls' = eq_calls + 1
    /\ eq_call' = [op |-> "A", itod |-> FALSE, b0 |-> eq_b]
    /\ eq_log' = <<>>
    /\ eq_err' = "none"
    /\ eq_work' = [k \in DOMAIN eq_cfg.signals |-> <<>>]
    /\ eq_tod' = <<>>
    /\ eq_si' = 1
    /\ eq_k' = 1
    /\ eq_pc' = IF eq_cfg.nscans = 0 THEN "A_reduce" ELSE "A_P"
    /\ UNCHANGED <<eq_cfg, eq_pix, eq_itod, eq_noise, eq_b>>
    /\ UNCHANGED notEqsys

\* A, "A_P": signal.precompute(scan); signal.forward(scan, tod, work), for
\* the next signal in reverse list order (tod starts as zeros for each scan)
A_Project ==
    /\ eq_pc = "A_P"
    /\ LET k      == A_ForwardOrder(NSig)[eq_k]
           indata == InData(eq_cfg, k, eq_si)
           tod0   == IF eq_k = 1 THEN <<>> ELSE eq_tod
           tod1   == forward(k, indata, tod0)
       IN  /\ eq_pix' = [eq_pix EXCEPT ![k] = precompute(Kind(k), indata, @)]
           /\ eq_tod' = tod1
           /\ eq_log' = eq_log \o << Event("precompute", k, eq_si, FALSE),
                                     Event("forward", k, eq_si, tod1 # tod0) >>
    /\ IF eq_k < NSig
       THEN eq_k' = eq_k + 1 /\ eq_pc' = "A_P"
       ELSE eq_k' = 1 /\ eq_pc' = "A_N"
    /\ UNCHANGED <<eq_cfg, eq_call, eq_si, eq_itod, eq_work, eq_noise, eq_calls, eq_err, eq_b>>
    /\ UNCHANGED notEqsys

\* A, "A_N": the weights, scan.noise.apply(tod), the weights in reverse
A_Noise ==
    /\ eq_pc = "A_N"
    /\ eq_tod' = TagAll(Append(TagAll(eq_tod, eq_cfg.weights), <<"N", eq_noise[eq_si]>>),
                        Reverse(eq_cfg.weights))
    /\ eq_log' = eq_log \o CallEvents("weight", eq_cfg.weights, eq_si)
                        \o << Event("noise", 0, eq_si, TRUE) >>
                        \o CallEvents("weight", eq_cfg.weights, eq_si)
    /\ eq_pc' = "A_PT"
    /\ eq_k' = 1
    /\ UNCHANGED <<eq_cfg, eq_call, eq_si, eq_pix, eq_itod, eq_work, eq_noise, eq_calls, eq_err, eq_b>>
    /\ UNCHANGED notEqsys

\* A, "A_PT": signal.backward(scan, tod, work); signal.free(), for the next
\* signal in list order; an exception of free leaves A
A_BackProject ==
    /\ eq_pc = "A_PT"
    /\ LET k      == A_BackwardOrder(NSig)[eq_k]
           indata == InData(eq_cfg, k, eq_si)
           work1  == backward(eq_si, indata, eq_tod, eq_work[k])
           fr     == free(Kind(k), eq_pix[k])
       IN  /\ eq_work' = [eq_work EXCEPT ![k] = work1]
           /\ eq_pix' = [eq_pix EXCEPT ![k] = fr.pix]
           /\ eq_log' = eq_log \o << Event("backward", k, eq_si, work1 # eq_work[k]),
                                     Event("free", k, eq_si, FALSE) >>
           /\ IF fr.raised
              THEN /\ eq_err' = "AttributeError"
                   /\ eq_pc' = "raised"
                   /\ UNCHANGED <<eq_k, eq_si>>
              ELSE /\ eq_err' = eq_err
                   /\ IF eq_k < NSig
                      THEN eq_k' = eq_k + 1 /\ eq_pc' = "A_PT" /\ eq_si' = eq_si
                      ELSE /\ eq_k' = 1
                           /\ IF eq_si < eq_cfg.nscans
                              THEN eq_si' = eq_si + 1 /\ eq_pc' = "A_P"
                              ELSE eq_si' = eq_si /\ eq_pc' = "A_reduce"
    /\ UNCHANGED <<eq_cfg, eq_call, eq_tod, eq_itod, eq_noise, eq_calls, eq_b>>
    /\ UNCHANGED notEqsys

\* a loop that finishes the first signal again and again
FinishOrder_First(n) == [i \in 1..n |-> 1]

\* the order of the finish loops: zip(self.signals, omaps, owork)
FinishOrder(n) == [i \in 1..n |-> i]

\* A, "A_reduce": signal.finish(map, work) for the next signal in list order
A_Finish ==
    /\ eq_pc = "A_reduce"
    /\ eq_log' = Append(eq_log, Event("finish", FinishOrder(NSig)[eq_k], 0, TRUE))
    /\ IF eq_k < NSig
       THEN eq_k' = eq_k + 1 /\ eq_pc' = "A_reduce"
       ELSE eq_k' = 1 /\ eq_pc' = "A_prior"
    /\ UNCHANGED <<eq_cfg, eq_call, eq_si, eq_pix, eq_tod, eq_itod, eq_work, eq_noise,
                   eq_calls, eq_err, eq_b>>
    /\ UNCHANGED notEqsys

\* A, "A_prior": signal.prior(self.scans, imap, omap) for the next signal in
\* list order; after the last one A returns self.dof.zip(omaps)
A_Prior ==
    /\ eq_pc = "A_prior"
    /\ eq_log' = Append(eq_log, Event("prior", eq_k, 0, TRUE))
    /\ IF eq_k < NSig
       THEN eq_k' = eq_k + 1 /\ eq_pc' = "A_prior"
       ELSE eq_k' = 1 /\ eq_pc' = "returned"
    /\ UNCHANGED <<eq_cfg, eq_call, eq_si, eq_pix, eq_tod, eq_itod, eq_work, eq_noise,
                   eq_calls, eq_err, eq_b>>
    /\ UNCHANGED notEqsys

\* what the caller's array holds after an in-place change of tod: calc_b
\* binds tod to itod itself (`else: tod = itod`), so the two are one array
AliasItod(tod) == IF eq_call.itod THEN tod ELSE eq_itod

\* calc_b(itod), the set-up: zero maps and work arrays
B_Begin ==
    /\ eq_pc \in {"idle", "returned", "raised"}
    /\ eq_err \notin {"ReadError", "FitError"}   \* a failed read or fit ends the run
    /\ eq_calls < MaxCalls
    /\ eq_calls' = eq_calls + 1
    /\ \E itod \in BOOLEAN :
        /\ eq_call' = [op |-> "b", itod |-> itod, b0 |-> eq_b]
        /\ eq_itod' = IF itod THEN <<"itod">> ELSE <<>>
    /\ eq_log' = <<>>
    /\ eq_err' = "none"
    /\ eq_work' = [k \in DOMAIN eq_cfg.signals |-> <<>>]
    /\ eq_tod' = <<>>
    /\ eq_si' = 1
    /\ eq_k' = 1
    /\ eq_pc' = IF eq_cfg.nscans = 0 THEN "b_reduce" ELSE "b_read"
    /\ UNCHANGED <<eq_cfg, eq_pix, eq_noise, eq_b>>
    /\ UNCHANGED notEqsys

\* an exception that calc_b lets through to its caller
Propagate_Swallow(err, next) == [pc |-> next, err |-> "none"]

\* calc_b has no try/except: an exception of a step leaves calc_b at once
Propagate(err, next) == [pc |-> "raised", err |-> err]

\* calc_b, "b_read": tod = scan.get_samples().astype(dtype), or tod = itod;
\* get_samples may raise
B_Read ==
    /\ eq_pc = "b_read"
    /\ \E ok \in BOOLEAN :
        IF ok \/ eq_call.itod
        THEN /\ eq_tod' = IF eq_call.itod THEN eq_itod ELSE << <<"d", eq_si>> >>
             /\ eq_log' = Append(eq_log, Event("read", 0, eq_si, FALSE))
             /\ eq_pc' = "b_filter"
             /\ eq_err' = eq_err
        ELSE /\ eq_tod' = eq_tod
             /\ eq_log' = Append(eq_log, Event("read_failed", 0, eq_si, FALSE))
             /\ eq_pc' = Propagate("ReadError", "b_filter").pc
             /\ eq_err' = Propagate("ReadError", "b_filter").err
    /\ UNCHANGED <<eq_cfg, eq_call, eq_si, eq_k, eq_pix, eq_itod, eq_work, eq_noise,
                   eq_calls, eq_b>>
    /\ UNCHANGED notEqsys

\* calc_b, "b_filter": for filter in self.filters: filter(scan, tod)
B_Filter ==
    /\ eq_pc = "b_filter"
    /\ eq_tod' = TagAll(eq_tod, eq_cfg.filters)
    /\ eq_itod' = AliasItod(eq_tod')
    /\ eq_log' = eq_log \o CallEvents("filter", eq_cfg.filters, eq_si)
    /\ eq_pc' = "b_weight"
    /\ UNCHANGED <<eq_cfg, eq_call, eq_si, eq_k, eq_pix, eq_work, eq_noise,
                   eq_calls, eq_err, eq_b>>
    /\ UNCHANGED notEqsys

\* calc_b, "b_weight": for weight in self.weights: weight(scan, tod)
B_Weight ==
    /\ eq_pc = "b_weight"
    /\ eq_tod' = TagAll(eq_tod, eq_cfg.weights)
    /\ eq_itod' = AliasItod(eq_tod')
    /\ eq_log' = eq_log \o CallEvents("weight", eq_cfg.weights, eq_si)
    /\ eq_pc' = "b_N_build"
    /\ UNCHANGED <<eq_cfg, eq_call, eq_si, eq_k, eq_pix, eq_work, eq_noise,
                   eq_calls, eq_err, eq_b>>
    /\ UNCHANGED notEqsys

\* calc_b, "b_N_build": scan.noise = scan.noise.update(tod, scan.srate);
\* update may raise, and then scan.noise is not assigned
B_NoiseBuild ==
    /\ eq_pc = "b_N_build"
    /\ \E ok \in BOOLEAN :
        IF ok
        THEN /\ eq_noise' = [eq_noise EXCEPT ![eq_si] = NoiseUpdate(@)]
             /\ eq_log' = Append(eq_log, Event("update", 0, eq_si, TRUE))
             /\ eq_pc' = "b_filter2"
             /\ eq_err' = eq_err
        ELSE /\ eq_noise' = eq_noise
             /\ eq_log' = Append(eq_log, Event("update_failed", 0, eq_si, FALSE))
             /\ eq_pc' = Propagate("FitError", "b_filter2").pc
             /\ eq_err' = Propagate("FitError", "b_filter2").err
    /\ UNCHANGED <<eq_cfg, eq_call, eq_si, eq_k, eq_pix, eq_tod, eq_itod, eq_work,
                   eq_calls, eq_b>>
    /\ UNCHANGED notEqsys

\* calc_b, "b_filter2": for filter in self.filters2: list(filter(scan, tod))
B_Filter2 ==
    /\ eq_pc = "b_filter2"
    /\ eq_tod' = TagAll(eq_tod, eq_cfg.filters2)
    /\ eq_itod' = AliasItod(eq_tod')
    /\ eq_log' = eq_log \o CallEvents("filter2", eq_cfg.filters2, eq_si)
    /\ eq_pc' = "b_N"
    /\ UNCHANGED <<eq_cfg, eq_call, eq_si, eq_k, eq_pix, eq_work, eq_noise,
                   eq_calls, eq_err, eq_b>>
    /\ UNCHANGED notEqsys

\* calc_b, "b_N": scan.noise.apply(tod)
B_NoiseApply ==
    /\ eq_pc = "b_N"
    /\ eq_tod' = Append(eq_tod, <<"N", eq_noise[eq_si]>>)
    /\ eq_itod' = AliasItod(eq_tod')
    /\ eq_log' = Append(eq_log, Event("noise", 0, eq_si, TRUE))
    /\ eq_pc' = "b_weight2"
    /\ UNCHANGED <<eq_cfg, eq_call, eq_si, eq_k, eq_pix, eq_work, eq_noise,
                   eq_calls, eq_err, eq_b>>
    /\ UNCHANGED notEqsys

\* calc_b, the second "b_weight": for weight in self.weights[::-1]: weight(scan, tod)
B_WeightRev ==
    /\ eq_pc = "b_weight2"
    /\ eq_tod' = TagAll(eq_tod, Reverse(eq_cfg.weights))
    /\ eq_itod' = AliasItod(eq_tod')
    /\ eq_log' = eq_log \o CallEvents("weight", eq_cfg.weights, eq_si)
    /\ eq_pc' = "b_PT"
    /\ eq_k' = 1
    /\ UNCHANGED <<eq_cfg, eq_call, eq_si, eq_pix, eq_work, eq_noise,
                   eq_calls, eq_err, eq_b>>
    /\ UNCHANGED notEqsys

\* calc_b, "b_PT": signal.precompute(scan); signal.backward(scan, tod, work);
\* signal.free(), for the next signal in list order
B_BackProject ==
    /\ eq_pc = "b_PT"
    /\ LET k      == eq_k
           indata == InData(eq_cfg, k, eq_si)
           pix1   == precompute(Kind(k), indata, eq_pix[k])
           work1  == backward(eq_si, indata, eq_tod, eq_work[k])
           fr     == free(Kind(k), pix1)
       IN  /\ eq_work' = [eq_work EXCEPT ![k] = work1]
           /\ eq_pix' = [eq_pix EXCEPT ![k] = fr.pix]
           /\ eq_log' = eq_log \o << Event("precompute", k, eq_si, FALSE),
                                     Event("backward", k, eq_si, work1 # eq_work[k]),
                                     Event("free", k, eq_si, FALSE) >>
           /\ IF fr.raised
              THEN /\ eq_err' = "AttributeError"
                   /\ eq_pc' = "raised"
                   /\ UNCHANGED <<eq_k, eq_si>>
              ELSE /\ eq_err' = eq_err
                   /\ IF eq_k < NSig
                      THEN eq_k' = eq_k + 1 /\ eq_pc' = "b_PT" /\ eq_si' = eq_si
                      ELSE /\ eq_k' = 1
                           /\ IF eq_si < eq_cfg.nscans
                              THEN eq_si' = eq_si + 1 /\ eq_pc' = "b_read"
                              ELSE eq_si' = eq_si /\ eq_pc' = "b_reduce"
    /\ UNCHANGED <<eq_cfg, eq_call, eq_tod, eq_itod, eq_noise, eq_calls, eq_b>>
    /\ UNCHANGED notEqsys

\* calc_b, "b_reduce": signal.finish(map, work) for the next signal in list order
B_Finish ==
    /\ eq_pc = "b_reduce"
    /\ eq_log' = Append(eq_log, Event("finish", FinishOrder(NSig)[eq_k], 0, TRUE))
    /\ IF eq_k < NSig
       THEN eq_k' = eq_k + 1 /\ eq_pc' = "b_reduce"
       ELSE eq_k' = 1 /\ eq_pc' = "b_zip"
    /\ UNCHANGED <<eq_cfg, eq_call, eq_si, eq_pix, eq_tod, eq_itod, eq_work, eq_noise,
                   eq_calls, eq_err, eq_b>>
    /\ UNCHANGED notEqsys

\* calc_b, "b_zip": self.b = self.dof.zip(maps)
B_Zip ==
    /\ eq_pc = "b_zip"
    /\ eq_b' = Some(eq_work)
    /\ eq_pc' = "returned"
    /\ UNCHANGED <<eq_cfg, eq_call, eq_si, eq_k, eq_log, eq_pix, eq_tod, eq_itod, eq_work,
                   eq_noise, eq_calls, eq_err>>
    /\ UNCHANGED notEqsys

EqsysNext ==
    \/ Eqsys_Init
    \/ A_Begin \/ A_Project \/ A_Noise \/ A_BackProject \/ A_Finish \/ A_Prior
    \/ B_Begin \/ B_Read \/ B_Filter \/ B_Weight \/ B_NoiseBuild \/ B_Filter2
    \/ B_NoiseApply \/ B_WeightRev \/ B_BackProject \/ B_Finish \/ B_Zip

----------------------------------------------------------------------------
(* map_equation.py: the mask and the LinearSystemMap *)

Pixels == 1..NPix
\* the components of a map: T, Q, U
Comps == 1..3
\* entries stand for zero / non-zero
Maps == [Comps -> [Pixels -> {0, 1}]]
JunkVectors == {<<0>>, <<1>>}
ZeroMap == [c \in Comps |-> [p \in Pixels |-> 0]]
OneMap == [c \in Comps |-> [p \in Pixels |-> 1]]
\* a condition number num/den: den = 0 stands for inf (num > 0) or nan (num = 0)
Ratio(num, den) == [num |-> num, den |-> den]
\* condition >= k and condition < k as numpy compares floats: false for nan
RatioGE(r, k) == IF r.den = 0 THEN r.num > 0 ELSE r.num >= k * r.den
RatioLT(r, k) == r.den # 0 /\ r.num < k * r.den

\* per pixel: div[0,0] and the condition number of the pixel's block
Divs == [Pixels -> [tt : {0, 1}, cond : {Ratio(1, 1), Ratio(precond_condition_lim, 1)}]]

\* makemask(div): masks[0] = div[0,0] > 0; masks[1:] = (condition >= 1)*(condition < lim)
makemask(div) ==
    [c \in Comps |-> [p \in Pixels |->
        IF c = 1 THEN div[p].tt > 0
        ELSE RatioGE(div[p].cond, 1) /\ RatioLT(div[p].cond, precond_condition_lim)]]

\* <Precond>.mask: makemask(self.div_map) for the binned preconditioner,
\* binned.mask for the circulant and the submap one
PrecondMask(precon, div) ==
    CASE precon = "bin" -> makemask(div)
      [] precon = "cyc" -> makemask(div)
      [] precon = "sub" -> makemask(div)

\* the mask a DOF packs with, when none is given
DofMask_Full(mask) == [c \in Comps |-> [p \in Pixels |-> TRUE]]

\* DOF({"shared":self.mask}, ...): the mask the packer of the system uses
DofMask(mask) == mask

\* the entries of a map in storage order
Entry(i) == <<((i - 1) \div NPix) + 1, ((i - 1) % NPix) + 1>>
EntryNo(c, p) == (c - 1) * NPix + p
\* the position of entry (c, p) among the packed entries
Rank(mask, c, p) == Cardinality({i \in 1..EntryNo(c, p) : mask[Entry(i)[1]][Entry(i)[2]]})
DofN(mask) == Rank(mask, 3, NPix)

\* DOF.zip(map, junk): the map entries where the mask is set, then the junk
DofZip(mask, map, junk) ==
    [r \in 1..DofN(mask) |->
        LET i == CHOOSE i \in 1..(3 * NPix) :
                    mask[Entry(i)[1]][Entry(i)[2]] /\ Rank(mask, Entry(i)[1], Entry(i)[2]) = r
        IN  map[Entry(i)[1]][Entry(i)[2]]] \o junk

\* DOF.unzip(x): the packed entries back in place, zero where the mask is not set
DofUnzip(mask, x) ==
    [map  |-> [c \in Comps |-> [p \in Pixels |->
                  IF mask[c][p] THEN x[Rank(mask, c, p)] ELSE 0]],
     junk |-> SubSeq(x, DofN(mask) + 1, Len(x))]

FlatVectors(mask) == [1..(DofN(mask) + 1) -> {0, 1}]

LinsysIdle ==
    /\ ls_pc = "unbuilt"
    /\ ls_precon = "none"
    /\ ls_div = <<>>
    /\ ls_mask = <<>>
    /\ ls_dof = <<>>
    /\ ls_b = <<>>
    /\ ls_op = "none"
    /\ ls_x = <<>>
    /\ ls_raw = <<>>
    /\ ls_res = <<>>

\* LinearSystemMap.__init__: the preconditioner, its mask, the packer, b
LinearSystemMap_init ==
    /\ ls_pc = "unbuilt"
    /\ \E precon \in {"bin", "cyc", "sub"}, div \in Divs :
        /\ ls_precon' = precon
        /\ ls_div' = div
        /\ ls_mask' = PrecondMask(precon, div)
    /\ ls_dof' = DofMask(ls_mask')
    /\ ls_b' = DofZip(ls_dof', OneMap, <<1>>)
    /\ ls_pc' = "built"
    /\ UNCHANGED <<ls_op, ls_x, ls_raw, ls_res>>
    /\ UNCHANGED notLinsys

\* what a linear operator can return for the unpacked x: zero for a zero
\* input, any map and junk otherwise
LinearImages(parts) ==
    IF parts.map = ZeroMap /\ parts.junk = <<0>>
    THEN {[map |-> ZeroMap, junk |-> <<0>>]}
    ELSE [map : Maps, junk : JunkVectors]

\* LinearSystemMap.A(x): self.dof.zip(*self.mapeq.A(*self.dof.unzip(x)))
LinearSystemMap_A ==
    /\ ls_pc = "built"
    /\ \E x \in FlatVectors(ls_dof) :
       \E raw \in LinearImages(DofUnzip(ls_dof, x)) :
        /\ ls_x' = x
        /\ ls_raw' = raw.map
        /\ ls_res' = DofZip(ls_dof, raw.map, raw.junk)
    /\ ls_op' = "A"
    /\ ls_pc' = "applied"
    /\ UNCHANGED <<ls_precon, ls_div, ls_mask, ls_dof, ls_b>>
    /\ UNCHANGED notLinsys

\* <Precond>.apply(map, junk): the junk is junk/self.div_junk for the binned
\* and the circulant preconditioner and junk itself for the submap one
PrecondImages(precon, parts) ==
    {r \in LinearImages(parts) : r.junk = parts.junk}

\* LinearSystemMap.M(x): self.dof.zip(*self.precon.apply(*self.dof.unzip(x)))
LinearSystemMap_M ==
    /\ ls_pc = "built"
    /\ \E x \in FlatVectors(ls_dof) :
       \E raw \in PrecondImages(ls_precon, DofUnzip(ls_dof, x)) :
        /\ ls_x' = x
        /\ ls_raw' = raw.map
        /\ ls_res' = DofZip(ls_dof, raw.map, raw.junk)
    /\ ls_op' = "M"
    /\ ls_pc' = "applied"
    /\ UNCHANGED <<ls_precon, ls_div, ls_mask, ls_dof, ls_b>>
    /\ UNCHANGED notLinsys

\* the caller takes the result; the system is ready for the next application
LinearSystemMap_return ==
    /\ ls_pc = "applied"
    /\ ls_pc' = "built"
    /\ ls_op' = "none"
    /\ ls_x' = <<>>
    /\ ls_raw' = <<>>
    /\ ls_res' = <<>>
    /\ UNCHANGED <<ls_precon, ls_div, ls_mask, ls_dof, ls_b>>
    /\ UNCHANGED notLinsys

LinsysNext ==
    \/ LinearSystemMap_init
    \/ LinearSystemMap_A
    \/ LinearSystemMap_M
    \/ LinearSystemMap_return

----------------------------------------------------------------------------
(* mapmaking.py: the temporary overwrites of scan state *)

\* the component vectors a scan starts with
CompsValues == {<<1, 1, 1>>, <<1, 0, 0>>}
\* np.array([1,1,0]), what calc_crosslink_map writes into scan.comps
CrosslinkComps == <<1, 1, 0>>
ScScans == DOMAIN sc_comps

ScanIdle ==
    /\ sc_pc = "unbuilt"
    /\ sc_call = [op |-> "none", kind |-> "none", absent |-> 0, prec |-> "none", scan |-> 0]
    /\ sc_i = 0
    /\ sc_comps = <<>>
    /\ sc_saved = <<>>
    /\ sc_noise = <<>>
    /\ sc_old = None
    /\ sc_pix = FALSE
    /\ sc_work = <<>>
    /\ sc_err = "none"
    /\ sc_before = [comps |-> <<>>, noise |-> <<>>]

\* the scans as read: each with its comps and its noise model
Scans_Read ==
    /\ sc_pc = "unbuilt"
    /\ \E n \in 1..MaxScans : \E comps \in [1..n -> CompsValues] :
        /\ sc_comps' = comps
        /\ sc_noise' = [s \in 1..n |-> 0]
    /\ sc_pc' = "ready"
    /\ UNCHANGED <<sc_call, sc_i, sc_saved, sc_old, sc_pix, sc_work, sc_err, sc_before>>
    /\ UNCHANGED notScan

\* calc_crosslink_map, up to the loop: save the comps, overwrite them, zero the maps
Crosslink_Begin ==
    /\ sc_pc = "ready"
    /\ \E kind \in {"map", "mapfast", "dmap", "dmapfast"}, absent \in {0} \cup ScScans :
        sc_call' = [op |-> "crosslink", kind |-> kind, absent |-> absent,
                    prec |-> "none", scan |-> 0]
    /\ sc_before' = [comps |-> sc_comps, noise |-> sc_noise]
    /\ sc_saved' = sc_comps
    /\ sc_comps' = [s \in ScScans |-> CrosslinkComps]
    /\ sc_work' = <<>>
    /\ sc_i' = 1
    /\ sc_pc' = "xl_scan"
    /\ UNCHANGED <<sc_noise, sc_old, sc_pix, sc_err>>
    /\ UNCHANGED notScan

\* calc_crosslink_map, one turn of the loop: signal.precompute(scan), the
\* weights and scan.noise.white on a tod of ones, the two backward
\* projections, signal.free(); an exception of free leaves the function
Crosslink_Scan ==
    /\ sc_pc = "xl_scan"
    /\ LET indata == sc_call.absent # sc_i
           pix1   == precompute(sc_call.kind, indata, sc_pix)
           fr     == free(sc_call.kind, pix1)
       IN  /\ sc_work' = backward(sc_i, indata, <<"W">>, sc_work)
           /\ sc_pix' = fr.pix
           /\ IF fr.raised
              THEN /\ sc_err' = "AttributeError"
                   /\ sc_pc' = "raised"
                   /\ sc_i' = sc_i
              ELSE /\ sc_err' = sc_err
                   /\ IF sc_i < Len(sc_comps)
                      THEN sc_i' = sc_i + 1 /\ sc_pc' = "xl_scan"
                      ELSE sc_i' = sc_i /\ sc_pc' = "xl_finish"
    /\ UNCHANGED <<sc_call, sc_comps, sc_saved, sc_noise, sc_old, sc_before>>
    /\ UNCHANGED notScan

\* calc_crosslink_map, after the loop: signal.finish(cmap, owork), then
\* for scan, comp in zip(scans, saved_comps): scan.comps = comp
Crosslink_Finish ==
    /\ sc_pc = "xl_finish"
    /\ sc_comps' = sc_saved
    /\ sc_pc' = "returned"
    /\ UNCHANGED <<sc_call, sc_i, sc_saved, sc_noise, sc_old, sc_pix, sc_work, sc_err, sc_before>>
    /\ UNCHANGED notScan

\* FilterBuddyPertod.__call__(scan, tod), up to calc_b: old_noise = scan.noise,
\* the cut and map signals and the Eqsys of this one scan
Pertod_Begin ==
    /\ sc_pc = "ready"
    /\ \E prec \in {"bin", "jacobi", "cyc"}, scan \in ScScans :
        /\ sc_call' = [op |-> "pertod", kind |-> "none", absent |-> 0,
                       prec |-> prec, scan |-> scan]
        /\ sc_old' = Some(sc_noise[scan])
    /\ sc_before' = [comps |-> sc_comps, noise |-> sc_noise]
    /\ sc_work' = <<>>
    /\ sc_pc' = "fb_calc_b"
    /\ UNCHANGED <<sc_i, sc_comps, sc_saved, sc_noise, sc_pix, sc_err>>
    /\ UNCHANGED notScan

\* eqsys.calc_b(tod.copy()): on a copy of the tod, and as in calc_b
\* scan.noise = scan.noise.update(tod, scan.srate)
Pertod_CalcB ==
    /\ sc_pc = "fb_calc_b"
    /\ sc_noise' = [sc_noise EXCEPT ![sc_call.scan] = NoiseUpdate(@)]
    /\ sc_pc' = "fb_prec"
    /\ UNCHANGED <<sc_call, sc_i, sc_comps, sc_saved, sc_old, sc_pix, sc_work, sc_err, sc_before>>
    /\ UNCHANGED notScan

\* the preconditioner: PreconMapBinned for "bin" and "jacobi",
\* else: raise NotImplementedError
Pertod_Precon ==
    /\ sc_pc = "fb_prec"
    /\ IF sc_call.prec = "bin" \/ sc_call.prec = "jacobi"
       THEN sc_pc' = "fb_solve" /\ sc_err' = sc_err
       ELSE sc_pc' = "raised" /\ sc_err' = "NotImplementedError"
    /\ UNCHANGED <<sc_call, sc_i, sc_comps, sc_saved, sc_noise, sc_old, sc_pix, sc_work, sc_before>>
    /\ UNCHANGED notScan

\* the nstep CG steps, the apodization, pmat_buddy.forward(tod, buddy_map)
Pertod_Solve ==
    /\ sc_pc = "fb_solve"
    /\ sc_work' = Append(sc_work, <<"buddy", sc_call.scan>>)
    /\ sc_pc' = "fb_restore"
    /\ UNCHANGED <<sc_call, sc_i, sc_comps, sc_saved, sc_noise, sc_old, sc_pix, sc_err, sc_before>>
    /\ UNCHANGED notScan

\* scan.noise = old_noise
Pertod_Restore ==
    /\ sc_pc = "fb_restore"
    /\ sc_noise' = [sc_noise EXCEPT ![sc_call.scan] = sc_old[1]]
    /\ sc_pc' = "returned"
    /\ UNCHANGED <<sc_call, sc_i, sc_comps, sc_saved, sc_old, sc_pix, sc_work, sc_err, sc_before>>
    /\ UNCHANGED notScan

ScanNext ==
    \/ Scans_Read
    \/ Crosslink_Begin \/ Crosslink_Scan \/ Crosslink_Finish
    \/ Pertod_Begin \/ Pertod_CalcB \/ Pertod_Precon \/ Pertod_Solve \/ Pertod_Restore

----------------------------------------------------------------------------
(* map_equation.py: scan grouping *)

\* what analyze_scan returns, as far as the grouping reads it: ovecs (the scan
\* vector and the drift vector) and obox (two corners), in output coordinates
\* with the scan along the first axis and the drift along the second
ScanInfo(s, x0, y) ==
    [ovecs |-> << <<s, 0>>, <<0, 1>> >>,
     obox  |-> << <<x0, y[1]>>, <<x0 + 1, y[2]>> >>]

\* scan speed and scan-axis position of a scan
ScanShapes == {<<18, 0>>, <<20, 0>>, <<22, 0>>, <<20, 2>>}
\* drift-direction start and end of a scan
DriftExtents == {<<0, 1>>, <<1, 2>>, <<3, 4>>, <<6, 5>>}
ScanInfos == {ScanInfo(sh[1], sh[2], y) : sh \in ScanShapes, y \in DriftExtents}

Sq(a) == a * a
Abs(a) == IF a < 0 THEN 0 - a ELSE a
Sign(a) == IF a > 0 THEN 1 ELSE IF a < 0 THEN 0 - 1 ELSE 0
\* np.sum(v**2), the square of a vector's length
SqNorm(v) == Sq(v[1]) + Sq(v[2])
VecDiff(a, b) == <<a[1] - b[1], a[2] - b[2]>>
Dot(a, b) == a[1] * b[1] + a[2] * b[2]

\* np.any(vecdiff > veclens*vectol), both sides squared
VecMismatch(me, other) ==
    \E r \in 1..2 :
        SqNorm(VecDiff(me.ovecs[r], other.ovecs[r])) * Sq(InvVectol) > SqNorm(me.ovecs[r])

\* posdiff[0] > poslens[0]*postol, both sides squared: posdiff[0] is the length
\* over the two corners of the scan-vector coefficient of me.obox-other.obox
PosMismatch(me, other) ==
    LET num == Sq(me.obox[1][1] - other.obox[1][1]) + Sq(me.obox[2][1] - other.obox[2][1])
        den == SqNorm(me.ovecs[1])
        poslens0 == Abs(me.obox[2][1] - me.obox[1][1])
    IN  num * Sq(InvPostol) > Sq(poslens0) * den

\* whether the seed `me` takes `other` into its group
Accepts(me, other) == ~VecMismatch(me, other) /\ ~PosMismatch(me, other)

\* the unclassified list when the accepted scans are left in it
Remaining_Keep(unclassified, accepted) == unclassified

\* for v in accepted: unclassified.remove(v)
Remaining(unclassified, accepted) ==
    SelectSeq(unclassified, LAMBDA v : \A i \in DOMAIN accepted : accepted[i] # v)

RECURSIVE GroupLoop(_, _, _)
\* the while loop of group_scans_by_scandirs; scans are named by their index in info
GroupLoop(info, unclassified, groups) ==
    IF Len(unclassified) = 0 THEN groups
    ELSE LET me       == unclassified[Len(unclassified)]
             rest     == SubSeq(unclassified, 1, Len(unclassified) - 1)
             accepted == SelectSeq(rest, LAMBDA oi : Accepts(info[me], info[oi]))
         IN  GroupLoop(info, Remaining(rest, accepted), Append(groups, <<me>> \o accepted))

group_scans_by_scandirs(info) == GroupLoop(info, [i \in DOMAIN info |-> i], <<>>)

\* driftvec /= np.sum(driftvec**2)**0.5, for a vector along one axis
UnitVec(v) == <<Sign(v[1]), Sign(v[2])>>

\* np.sum(member.obox*driftvec,1): from and to of a member in the drift direction
DriftPos(member, driftvec) == <<Dot(member.obox[1], driftvec), Dot(member.obox[2], driftvec)>>

\* np.argsort(keys): the indices in ascending key order; arrays this short are
\* sorted by insertion, which keeps equal keys in index order
argsort(keys) ==
    LET place(i) == Cardinality({j \in DOMAIN keys :
                        keys[j] < keys[i] \/ (keys[j] = keys[i] /\ j <= i)})
    IN  [r \in DOMAIN keys |-> CHOOSE i \in DOMAIN keys : place(i) = r]

\* a member that never starts a new subgroup
StartsNew_Never(start, end) == FALSE

\* if p[0] > end
StartsNew(start, end) == start > end

RECURSIVE SplitWalk(_, _, _, _, _, _)
\* the loop `for p, member in zip(pos,group)` and the append after it
SplitWalk(group, pos, i, end, sub, subgroups) ==
    IF i > Len(group)
    THEN IF Len(sub) > 0 THEN Append(subgroups, sub) ELSE subgroups
    ELSE LET new == StartsNew(pos[i][1], end)
         IN  SplitWalk(group, pos, i + 1, Max(end, pos[i][2]),
                       Append(IF new THEN <<>> ELSE sub, group[i]),
                       IF new /\ Len(sub) > 0 THEN Append(subgroups, sub) ELSE subgroups)

\* one turn of `for group in groups`: the subgroups of one group
SplitGroup(info, group, subgroups) ==
    LET driftvec == UnitVec(info[group[1]].ovecs[2])
        pos0     == [m \in DOMAIN group |-> DriftPos(info[group[m]], driftvec)]
        inds     == argsort([m \in DOMAIN group |-> pos0[m][1]])
        sorted   == [r \in DOMAIN group |-> group[inds[r]]]
        pos      == [r \in DOMAIN group |-> pos0[inds[r]]]
    IN  SplitWalk(sorted, pos, 1, pos[1][2], <<>>, subgroups)

RECURSIVE SplitLoop(_, _, _, _)
SplitLoop(info, groups, g, subgroups) ==
    IF g > Len(groups) THEN subgroups
    ELSE SplitLoop(info, groups, g + 1, SplitGroup(info, groups[g], subgroups))

split_disjoint_scan_groups(info, groups) == SplitLoop(info, groups, 1, <<>>)

\* the scan analyses after the split: driftvec is a view of group[0].ovecs[1],
\* so the in-place division rescales the drift vector of each group's first member
SplitInfo(info, groups) ==
    [i \in DOMAIN info |->
        IF \E g \in DOMAIN groups : groups[g][1] = i
        THEN [info[i] EXCEPT !.ovecs[2] = UnitVec(@)]
        ELSE info[i]]

GroupIdle ==
    /\ gr_pc = "idle"
    /\ gr_info = <<>>
    /\ gr_groups = <<>>
    /\ gr_sub = <<>>

\* scaninfo: one analyze_scan result per scan, all-reduced over the ranks
Group_Analyze ==
    /\ gr_pc = "idle"
    /\ \E n \in 0..MaxInfo : \E info \in [1..n -> ScanInfos] : gr_info' = info
    /\ gr_pc' = "analyzed"
    /\ UNCHANGED <<gr_groups, gr_sub>>
    /\ UNCHANGED notGroup

\* groups = group_scans_by_scandirs(allinfo)
Group_ByScandirs ==
    /\ gr_pc = "analyzed"
    /\ gr_groups' = group_scans_by_scandirs(gr_info)
    /\ gr_pc' = "grouped"
    /\ UNCHANGED <<gr_info, gr_sub>>
    /\ UNCHANGED notGroup

\* groups = split_disjoint_scan_groups(groups)
Group_Split ==
    /\ gr_pc = "grouped"
    /\ gr_sub' = split_disjoint_scan_groups(gr_info, gr_groups)
    /\ gr_info' = SplitInfo(gr_info, gr_groups)
    /\ gr_pc' = "split"
    /\ UNCHANGED gr_groups
    /\ UNCHANGED notGroup

GroupNext == Group_Analyze \/ Group_ByScandirs \/ Group_Split

----------------------------------------------------------------------------
(* mapmaking.py: the hitcount, cut and phase preconditioners *)

\* hit counts of a pixel, and the values of P'W"P of a junk or phase entry
HitValues == {0, 1, 2, 3}
\* the values of a map or junk entry handed to a preconditioner
EntryValues == {0, 6}
\* the entries of a junk vector (or of one phase area)
CutIdx == 1..(NPix + 1)

\* PreconMapHitcount.__call__: m *= self.ihits, with self.ihits =
\* 1.0/np.maximum(self.hits,1) of shape (ny,nx) against m of shape (ncomp,ny,nx)
PreconMapHitcount_call(hits, m) ==
    [c \in Comps |-> [p \in Pixels |-> m[c][p] \div Max(hits[p], 1)]]

\* PreconDmapHitcount.__call__: per tile, htile = np.maximum(htile, 1); mtile /= htile
PreconDmapHitcount_call(hits, m) ==
    [c \in Comps |-> [p \in Pixels |-> m[c][p] \div Max(hits[p], 1)]]

\* PreconCut.__init__: self.idiv = junk*0; self.idiv[junk!=0] = 1/junk[junk!=0];
\* PreconCut.__call__: m *= self.idiv
PreconCut_call(div, m) ==
    [i \in DOMAIN m |-> IF div[i] # 0 THEN m[i] \div div[i] ELSE m[i] * 0]

\* PreconPhaseBinned.__call__: m[d!=0] /= d[d!=0]
PreconPhaseBinned_call(div, m) ==
    [i \in DOMAIN m |-> IF div[i] # 0 THEN m[i] \div div[i] ELSE m[i]]

PreconIdle ==
    /\ pr_pc = "idle"
    /\ pr_kind = "none"
    /\ pr_div = <<>>
    /\ pr_in = <<>>
    /\ pr_out = <<>>

\* PreconMapHitcount.__init__ / PreconDmapHitcount.__init__: self.hits = calc_hits_map(...)
PreconHitcount_init ==
    /\ pr_pc = "idle"
    /\ \E kind \in {"PreconMapHitcount", "PreconDmapHitcount"} : pr_kind' = kind
    /\ \E hits \in [Pixels -> HitValues] : pr_div' = hits
    /\ pr_pc' = "built"
    /\ UNCHANGED <<pr_in, pr_out>>
    /\ UNCHANGED notPrecon

\* PreconCut.__init__ / PreconPhaseBinned.__init__: the diagonal P'W"P
PreconDiv_init ==
    /\ pr_pc = "idle"
    /\ \E kind \in {"PreconCut", "PreconPhaseBinned"} : pr_kind' = kind
    /\ \E div \in [CutIdx -> HitValues] : pr_div' = div
    /\ pr_pc' = "built"
    /\ UNCHANGED <<pr_in, pr_out>>
    /\ UNCHANGED notPrecon

\* precon(m) for the hitcount preconditioners
PreconHitcount_apply ==
    /\ pr_pc = "built"
    /\ pr_kind \in {"PreconMapHitcount", "PreconDmapHitcount"}
    /\ \E m \in [Comps -> [Pixels -> EntryValues]] :
        /\ pr_in' = m
        /\ pr_out' = IF pr_kind = "PreconMapHitcount"
                     THEN PreconMapHitcount_call(pr_div, m)
                     ELSE PreconDmapHitcount_call(pr_div, m)
    /\ pr_pc' = "applied"
    /\ UNCHANGED <<pr_kind, pr_div>>
    /\ UNCHANGED notPrecon

\* precon(m) for the cut and the phase preconditioner
PreconDiv_apply ==
    /\ pr_pc = "built"
    /\ pr_kind \in {"PreconCut", "PreconPhaseBinned"}
    /\ \E m \in [CutIdx -> EntryValues] :
        /\ pr_in' = m
        /\ pr_out' = IF pr_kind = "PreconCut"
                     THEN PreconCut_call(pr_div, m)
                     ELSE PreconPhaseBinned_call(pr_div, m)
    /\ pr_pc' = "applied"
    /\ UNCHANGED <<pr_kind, pr_div>>
    /\ UNCHANGED notPrecon

PreconNext ==
    \/ PreconHitcount_init
    \/ PreconDiv_init
    \/ PreconHitcount_apply
    \/ PreconDiv_apply

----------------------------------------------------------------------------
(* map_equation.py: makemask on per-pixel blocks *)

\* the diagonal of a pixel's (ncomp,ncomp) block of div: TT, QQ, UU; the
\* blocks of the model are diagonal
DiagValues == {0, 1, 9, 10}
DivBlocks == [Pixels -> [Comps -> DiagValues]]

\* condition_number_multi(div, [0,1]) at one pixel: the largest over the
\* smallest eigenvalue of the whole (ncomp,ncomp) block
condition_number_multi(block) ==
    LET eigs == {block[c] : c \in Comps}
    IN  Ratio(CHOOSE e \in eigs : \A f \in eigs : f <= e,
              CHOOSE e \in eigs : \A f \in eigs : e <= f)

\* what makemask reads of div_map
DivOf(blocks) ==
    [p \in Pixels |-> [tt |-> blocks[p][1], cond |-> condition_number_multi(blocks[p])]]

MaskIdle ==
    /\ mk_pc = "idle"
    /\ mk_blocks = <<>>
    /\ mk_mask = <<>>

\* PrecondBinned.__init__, the loop over ci and the reduce: self.div_map
PrecondBinned_div ==
    /\ mk_pc = "idle"
    /\ \E blocks \in DivBlocks : mk_blocks' = blocks
    /\ mk_pc' = "div"
    /\ UNCHANGED mk_mask
    /\ UNCHANGED notMask

\* PrecondBinned.__init__: self.mask = makemask(self.div_map)
PrecondBinned_mask ==
    /\ mk_pc = "div"
    /\ mk_mask' = makemask(DivOf(mk_blocks))
    /\ mk_pc' = "masked"
    /\ UNCHANGED mk_blocks
    /\ UNCHANGED notMask

MaskNext == PrecondBinned_div \/ PrecondBinned_mask

----------------------------------------------------------------------------
(* map_equation.py: PrecondSubmap.apply *)

\* self.nmax = 20
nmax == 20

\* the masks of the inner system: everything, or T only
SubmapMasks == {[c \in Comps |-> [p \in Pixels |-> TRUE]],
                [c \in Comps |-> [p \in Pixels |-> c = 1]]}

Residuals == {"large", "small", "zero"}

\* a loop that stops once the residual is small
SubmapContinue_Tol(i, err) == i < nmax /\ err = "large"

\* for i in range(self.nmax): the loop has no break and does not look at solver.err
SubmapContinue(i, err) == i < nmax

SubmapIdle ==
    /\ sb_pc = "unbuilt"
    /\ sb_mask = <<>>
    /\ sb_in = <<>>
    /\ sb_i = 0
    /\ sb_err = "large"
    /\ sb_small = FALSE
    /\ sb_x = <<>>
    /\ sb_out = None

\* PrecondSubmap.__init__: self.linsys = LinearSystemMap(...), self.nmax = 20
PrecondSubmap_init ==
    /\ sb_pc = "unbuilt"
    /\ sb_mask' \in SubmapMasks
    /\ sb_pc' = "built"
    /\ UNCHANGED <<sb_in, sb_i, sb_err, sb_small, sb_x, sb_out>>
    /\ UNCHANGED notSubmap

\* apply: b = eq.dof.zip(map,junk); solver = cg.CG(eq.A, b, M=eq.M, dot=eq.dof.dot),
\* which starts at x = 0 with no step taken
PrecondSubmap_apply ==
    /\ sb_pc = "built"
    /\ \E map \in {ZeroMap, OneMap}, junk \in JunkVectors :
        /\ sb_in' = [map |-> map, junk |-> junk]
        /\ sb_x' = [r \in 1..(DofN(sb_mask) + 1) |-> 0]
    /\ sb_i' = 0
    /\ sb_err' = "large"
    /\ sb_small' = FALSE
    /\ sb_pc' = "stepping"
    /\ UNCHANGED <<sb_mask, sb_out>>
    /\ UNCHANGED notSubmap

\* apply: solver.step(), which moves solver.x and leaves any residual
PrecondSubmap_step ==
    /\ sb_pc = "stepping"
    /\ SubmapContinue(sb_i, sb_err)
    /\ sb_i' = sb_i + 1
    /\ sb_err' \in Residuals
    /\ sb_small' = (sb_small \/ sb_err # "large")
    /\ sb_x' \in {[r \in 1..(DofN(sb_mask) + 1) |-> 0],
                  DofZip(sb_mask, sb_in.map, sb_in.junk),
                  DofZip(sb_mask, OneMap, <<1>>)}
    /\ UNCHANGED <<sb_pc, sb_mask, sb_in, sb_out>>
    /\ UNCHANGED notSubmap

\* apply: map, _ = eq.dof.unzip(solver.x); return map, junk
PrecondSubmap_return ==
    /\ sb_pc = "stepping"
    /\ ~SubmapContinue(sb_i, sb_err)
    /\ sb_out' = Some([map |-> DofUnzip(sb_mask, sb_x).map, junk |-> sb_in.junk])
    /\ sb_pc' = "returned"
    /\ UNCHANGED <<sb_mask, sb_in, sb_i, sb_err, sb_small, sb_x>>
    /\ UNCHANGED notSubmap

SubmapNext == PrecondSubmap_init \/ PrecondSubmap_apply \/ PrecondSubmap_step
    \/ PrecondSubmap_return

----------------------------------------------------------------------------
(* map_equation.py: PrecondSubmap.__init__, ownership of the scan groups *)

\* largest number of ranks of the communicator
MaxRanks == 2

RobinRanks == 0..(ro_size - 1)

\* two scans of one direction at disjoint drift positions, and one of another
\* scan-axis position
RobinInfos == {ScanInfo(20, 0, <<0, 1>>), ScanInfo(20, 0, <<3, 4>>), ScanInfo(20, 2, <<0, 1>>)}

\* the concatenation of the ranks' lists from rank r on, in rank order
RECURSIVE ConcatFrom(_, _, _)
ConcatFrom(lists, r, size) ==
    IF r >= size THEN <<>> ELSE lists[r] \o ConcatFrom(lists, r + 1, size)

\* comm.allreduce(scaninfo): the sum of python lists, which every rank receives
allreduce(lists, size) == ConcatFrom(lists, 0, size)

\* a[start+1::step], which leaves out position start
ListSlice_Shifted(a, start, step) ==
    [j \in 1..((Max(Len(a) - start - 1, 0) + step - 1) \div step) |->
        a[start + 1 + (j - 1) * step + 1]]

\* a[start::step] of a python list, for 0 <= start and step >= 1
ListSlice(a, start, step) ==
    [j \in 1..((Max(Len(a) - start, 0) + step - 1) \div step) |->
        a[start + (j - 1) * step + 1]]

RobinIdle ==
    /\ ro_pc = <<>>
    /\ ro_size = 0
    /\ ro_local = <<>>
    /\ ro_all = <<>>
    /\ ro_groups = <<>>
    /\ ro_mine = <<>>

\* for d in mapeq.data: scaninfo.append(analyze_scan(d)), on every rank; the
\* scans are cut into the ranks' shares, which may be empty
Robin_Analyze ==
    /\ ro_size = 0
    /\ \E size \in 1..MaxRanks, n \in 0..MaxInfo :
       \E info \in [1..n -> RobinInfos], cut \in [0..size -> 0..n] :
        /\ cut[0] = 0
        /\ cut[size] = n
        /\ \A r \in 0..(size - 1) : cut[r] <= cut[r + 1]
        /\ ro_size' = size
        /\ ro_local' = [r \in 0..(size - 1) |-> SubSeq(info, cut[r] + 1, cut[r + 1])]
        /\ ro_pc' = [r \in 0..(size - 1) |-> "analyzed"]
        /\ ro_all' = [r \in 0..(size - 1) |-> <<>>]
        /\ ro_groups' = [r \in 0..(size - 1) |-> <<>>]
        /\ ro_mine' = [r \in 0..(size - 1) |-> <<>>]
    /\ UNCHANGED notRobin

\* allinfo = mapeq.comm.allreduce(scaninfo): all ranks enter and leave together
Robin_Allreduce ==
    /\ ro_size > 0
    /\ \A r \in RobinRanks : ro_pc[r] = "analyzed"
    /\ ro_all' = [r \in RobinRanks |-> allreduce(ro_local, ro_size)]
    /\ ro_pc' = [r \in RobinRanks |-> "reduced"]
    /\ UNCHANGED <<ro_size, ro_local, ro_groups, ro_mine>>
    /\ UNCHANGED notRobin

\* on one rank: groups = group_scans_by_scandirs(allinfo);
\* groups = split_disjoint_scan_groups(groups);
\* mygroups = groups[mapeq.comm.rank::mapeq.comm.size]
Robin_Assign ==
    /\ \E r \in RobinRanks :
        /\ ro_pc[r] = "reduced"
        /\ LET groups == split_disjoint_scan_groups(ro_all[r],
                             group_scans_by_scandirs(ro_all[r]))
           IN  /\ ro_groups' = [ro_groups EXCEPT ![r] = groups]
               /\ ro_mine' = [ro_mine EXCEPT ![r] = ListSlice(groups, r, ro_size)]
               /\ ro_all' = [ro_all EXCEPT ![r] =
                                SplitInfo(@, group_scans_by_scandirs(@))]
        /\ ro_pc' = [ro_pc EXCEPT ![r] = "assigned"]
    /\ UNCHANGED <<ro_size, ro_local>>
    /\ UNCHANGED notRobin

RobinNext == Robin_Analyze \/ Robin_Allreduce \/ Robin_Assign

----------------------------------------------------------------------------
(* mapmaking.py: the collectives of Eqsys.A and Eqsys.calc_b over the ranks *)

\* the signal lists of the equation systems the ranks run
CollSignalLists ==
    {<<"cut", "map">>, <<"cut", "mapfast">>, <<"cut", "map", "phase">>, <<"cut", "dmap">>}

CollRanks == 0..(co_cfg.size - 1)

\* <Signal>.finish(map, work): the collective calls it makes, in order.
\* Signal.finish (the cut signal) copies locally; SignalMap.finish and the
\* classes that inherit it make one Allreduce; SignalPhase.finish makes one
\* Allreduce per area; SignalDmap.finish exchanges tiles in m.work2tile
FinishCalls(kind, nareas) ==
    CASE kind = "cut" -> <<>>
      [] kind \in {"map", "mapfast", "buddies"} -> <<"Allreduce">>
      [] kind \in {"dmap", "dmapfast"} -> <<"work2tile">>
      [] kind = "phase" -> [a \in 1..nareas |-> "Allreduce"]

\* for signal, map, work in zip(self.signals, omaps, owork): signal.finish(map, work):
\* the collective calls from signal k on, each with its signal's position
RECURSIVE ReduceCalls(_, _, _)
ReduceCalls(signals, nareas, k) ==
    IF k > Len(signals) THEN <<>>
    ELSE [a \in DOMAIN FinishCalls(signals[k], nareas) |->
             [sig |-> k, call |-> FinishCalls(signals[k], nareas)[a]]]
         \o ReduceCalls(signals, nareas, k + 1)

\* whether the loop over the rank's scans raises on its own: free() of a fast
\* signal after a precompute that returned early for a scan not in its data
ScanLoopRaises(signals, scans) ==
    LET cfg == [signals |-> [k \in DOMAIN signals |-> [kind |-> signals[k], all |-> FALSE]],
                absent |-> scans.absent]
    IN  \E s \in 1..scans.n, k \in DOMAIN signals :
            free(signals[k], precompute(signals[k], InData(cfg, k, s), FALSE)).raised

CollIdle ==
    /\ co_cfg = [op |-> "none", signals |-> <<>>, nareas |-> 0, size |-> 0]
    /\ co_scans = <<>>
    /\ co_pc = <<>>
    /\ co_log = <<>>

\* every rank calls A or calc_b of its own equation system: the same signal
\* list on every rank, any number of local scans on each
Coll_Begin ==
    /\ co_cfg.size = 0
    /\ \E op \in {"A", "b"}, signals \in CollSignalLists, size \in 1..MaxRanks :
       \E nareas \in IF \E k \in DOMAIN signals : signals[k] = "phase" THEN 1..2 ELSE {1} :
       \E scans \in [0..(size - 1) -> {sc \in [n : 0..MaxScans, absent : 0..1] : sc.absent <= sc.n}] :
        /\ co_cfg' = [op |-> op, signals |-> signals, nareas |-> nareas, size |-> size]
        /\ co_scans' = scans
        /\ co_pc' = [r \in 0..(size - 1) |-> "start"]
        /\ co_log' = [r \in 0..(size - 1) |-> <<>>]
    /\ UNCHANGED notColl

\* one rank runs the loop over its scans: it gets through, or free() raises,
\* or (calc_b) a read or a noise refit of one of its scans raises
Coll_Scans ==
    /\ \E r \in CollRanks :
        /\ co_pc[r] = "start"
        /\ \E ok \in BOOLEAN :
            co_pc' = [co_pc EXCEPT ![r] =
                IF ScanLoopRaises(co_cfg.signals, co_scans[r]) THEN "raised"
                ELSE IF ~ok /\ co_cfg.op = "b" /\ co_scans[r].n > 0 THEN "raised"
                ELSE "reduce"]
    /\ UNCHANGED <<co_cfg, co_scans, co_log>>
    /\ UNCHANGED notColl

\* one rank enters the next collective call of its finish loop and blocks in it
Coll_Enter ==
    /\ \E r \in CollRanks :
        /\ co_pc[r] = "reduce"
        /\ Len(co_log[r]) < Len(ReduceCalls(co_cfg.signals, co_cfg.nareas, 1))
        /\ co_log' = [co_log EXCEPT ![r] =
              Append(@, ReduceCalls(co_cfg.signals, co_cfg.nareas, 1)[Len(@) + 1])]
        /\ co_pc' = [co_pc EXCEPT ![r] = "waiting"]
    /\ UNCHANGED <<co_cfg, co_scans>>
    /\ UNCHANGED notColl

\* a collective completes once every rank of the communicator has entered it
Coll_Complete ==
    /\ co_cfg.size > 0
    /\ \A r \in CollRanks : co_pc[r] = "waiting" /\ Len(co_log[r]) = Len(co_log[0])
    /\ co_pc' = [r \in CollRanks |-> "reduce"]
    /\ UNCHANGED <<co_cfg, co_scans, co_log>>
    /\ UNCHANGED notColl

\* after the last finish the rank applies the priors (A) or zips b, and returns
Coll_Return ==
    /\ \E r \in CollRanks :
        /\ co_pc[r] = "reduce"
        /\ Len(co_log[r]) = Len(ReduceCalls(co_cfg.signals, co_cfg.nareas, 1))
        /\ co_pc' = [co_pc EXCEPT ![r] = "returned"]
    /\ UNCHANGED <<co_cfg, co_scans, co_log>>
    /\ UNCHANGED notColl

CollNext == Coll_Begin \/ Coll_Scans \/ Coll_Enter \/ Coll_Complete \/ Coll_Return

----------------------------------------------------------------------------
(* map_equation.py: LinearSystemMap.upsys, up and down *)

\* the number of samples of a scan, and the (ny, nx) of an area
SampleCounts == {3, 4}
AreaShapes == {<<2, 3>>, <<4, 4>>}

\* the length of a[::2]
HalfLen(n) == (n + 1) \div 2

\* [scan[:,::2] for scan in self.scans]
DecimateScans(scans) == [i \in DOMAIN scans |-> HalfLen(scans[i])]

\* self.area[:,::2,::2]
DecimateArea(area) == <<HalfLen(area[1]), HalfLen(area[2])>>

\* LinearSystemMap(scans, area, comm, precon): self._upsys = None
NewSystem(scans, area, precon) ==
    [type |-> "LinearSystemMap", scans |-> scans, area |-> area, precon |-> precon,
     upsys |-> None]

\* a property that builds a coarser system on every read
upsys_Rebuild(heap, i) ==
    [heap |-> [Append(heap, NewSystem(DecimateScans(heap[i].scans),
                                      DecimateArea(heap[i].area), "bin"))
                  EXCEPT ![i].upsys = Some(Len(heap) + 1)],
     ret  |-> Len(heap) + 1]

\* the property upsys of instance i: [heap, ret], the instances afterwards and
\* the one returned
upsys(heap, i) ==
    IF heap[i].upsys = None
    THEN [heap |-> [Append(heap, NewSystem(DecimateScans(heap[i].scans),
                                           DecimateArea(heap[i].area), "bin"))
                       EXCEPT ![i].upsys = Some(Len(heap) + 1)],
          ret  |-> Len(heap) + 1]
    ELSE [heap |-> heap, ret |-> heap[i].upsys[1]]

\* the number of times a method reads self.upsys: the property itself once,
\* up four times, down three times
UpsysReads(via) ==
    CASE via = "upsys" -> 1
      [] via = "up" -> 4
      [] via = "down" -> 3

RECURSIVE ReadUpsys(_, _, _, _)
\* n reads of self.upsys one after the other: [heap, reads]
ReadUpsys(heap, i, n, reads) ==
    IF n = 0 THEN [heap |-> heap, reads |-> reads]
    ELSE LET r == upsys(heap, i)
         IN  ReadUpsys(r.heap, i, n - 1, Append(reads, r.ret))

LevelsIdle ==
    /\ up_pc = "unbuilt"
    /\ up_heap = <<>>
    /\ up_first = <<>>
    /\ up_last = [sys |-> 0, via |-> "none", reads |-> <<>>]
    /\ up_n = 0

\* LinearSystemMap.__init__ of the fine system
Levels_init ==
    /\ up_pc = "unbuilt"
    /\ \E n \in 1..MaxScans, area \in AreaShapes, precon \in {"bin", "cyc", "sub"} :
       \E scans \in [1..n -> SampleCounts] :
        up_heap' = <<NewSystem(scans, area, precon)>>
    /\ up_first' = <<None>>
    /\ up_pc' = "built"
    /\ UNCHANGED <<up_last, up_n>>
    /\ UNCHANGED notLevels

\* sys.upsys, sys.up(x) or sys.down(x) on one of the instances
Levels_access ==
    /\ up_pc = "built"
    /\ up_n <= MaxCalls
    /\ \E i \in DOMAIN up_heap, via \in {"upsys", "up", "down"} :
        LET r == ReadUpsys(up_heap, i, UpsysReads(via), <<>>)
        IN  /\ up_heap' = r.heap
            /\ up_last' = [sys |-> i, via |-> via, reads |-> r.reads]
            /\ up_first' = [j \in DOMAIN r.heap |->
                   IF j > Len(up_heap) THEN None
                   ELSE IF j = i /\ up_first[i] = None THEN Some(r.reads[1])
                   ELSE up_first[j]]
    /\ up_n' = up_n + 1
    /\ UNCHANGED up_pc
    /\ UNCHANGED notLevels

LevelsNext == Levels_init \/ Levels_access

----------------------------------------------------------------------------
(* mapmaking.py: the loops over scans outside Eqsys *)

\* the operations that loop over scans with a signal
ScanLoops == {"prec_div_helper", "calc_hits_map", "calc_crosslink_map", "calc_icov_map",
              "calc_ptsrc_map", "PreconMapTod", "postfilter_map"}

\* what the body of each loop calls on its map signal, in order
LoopBody(op) ==
    CASE op = "prec_div_helper" -> <<"precompute", "forward", "backward", "free">>
      [] op = "calc_hits_map" -> <<"precompute", "backward", "free">>
      [] op = "calc_crosslink_map" -> <<"precompute", "backward", "free">>
      [] op = "calc_icov_map" -> <<"precompute", "forward", "backward", "free">>
      [] op = "calc_ptsrc_map" -> <<"backward", "free">>
      [] op = "PreconMapTod" -> <<"precompute", "forward", "backward", "free">>
      [] op = "postfilter_map" -> <<"forward", "backward">>

\* one call on the signal: [raised, pix]. forward and backward of the fast
\* variants read self.pix and self.phase, an AttributeError when they are not there
SignalCall(step, kind, haspix) ==
    CASE step = "precompute" -> [raised |-> FALSE, pix |-> precompute(kind, TRUE, haspix)]
      [] step = "free" -> free(kind, haspix)
      [] step \in {"forward", "backward"} ->
            [raised |-> IsFast(kind) /\ ~haspix, pix |-> haspix]

PairIdle ==
    /\ pa_pc = "idle"
    /\ pa_call = [op |-> "none", kind |-> "none", nscans |-> 0]
    /\ pa_scan = 0
    /\ pa_step = 0
    /\ pa_pix = FALSE
    /\ pa_log = <<>>

\* the operation is called with a signal and a list of scans, all in the signal's data
Pair_Begin ==
    /\ pa_pc = "idle"
    /\ \E op \in ScanLoops, kind \in {"map", "mapfast", "dmap", "dmapfast"}, n \in 0..MaxScans :
        /\ pa_call' = [op |-> op, kind |-> kind, nscans |-> n]
        /\ pa_pc' = IF n = 0 THEN "returned" ELSE "running"
        /\ pa_scan' = IF n = 0 THEN 0 ELSE 1
        /\ pa_step' = IF n = 0 THEN 0 ELSE 1
    /\ UNCHANGED <<pa_pix, pa_log>>
    /\ UNCHANGED notPair

\* the next call of the loop body on the signal
Pair_Step ==
    /\ pa_pc = "running"
    /\ LET body == LoopBody(pa_call.op)
           r    == SignalCall(body[pa_step], pa_call.kind, pa_pix)
       IN  /\ pa_log' = Append(pa_log, [op |-> body[pa_step], scan |-> pa_scan])
           /\ pa_pix' = r.pix
           /\ IF r.raised
              THEN pa_pc' = "raised" /\ UNCHANGED <<pa_scan, pa_step>>
              ELSE IF pa_step < Len(body)
                   THEN pa_step' = pa_step + 1 /\ UNCHANGED <<pa_pc, pa_scan>>
                   ELSE IF pa_scan < pa_call.nscans
                        THEN pa_scan' = pa_scan + 1 /\ pa_step' = 1 /\ UNCHANGED pa_pc
                        ELSE pa_pc' = "returned" /\ UNCHANGED <<pa_scan, pa_step>>
    /\ UNCHANGED pa_call
    /\ UNCHANGED notPair

PairNext == Pair_Begin \/ Pair_Step

----------------------------------------------------------------------------
(* map_equation.py: what the scan grouping and sim_scan_from_group write *)

\* def sim_scan_from_group(group, area, oversample=2)
oversample == 2

\* largest number of runs of each of the two functions on the same analyses
MaxRuns == 2

\* the number that stands for 1.0: the vectors are kept in units small enough
\* for MaxRuns divisions by oversample to be exact
FixedOne == oversample ^ MaxRuns

\* an analysis with scan speed s, drift speed d and drift extent y
SynthInfo(s, d, y) ==
    [ovecs |-> << <<s * FixedOne, 0>>, <<0, d * FixedOne>> >>,
     obox  |-> << <<0, y[1] * FixedOne>>, <<FixedOne, y[2] * FixedOne>> >>,
     ivecs |-> << <<s * FixedOne, 0>>, <<0, d * FixedOne>> >>,
     ibox  |-> << <<0, y[1] * FixedOne>>, <<FixedOne, y[2] * FixedOne>> >>]

SynthInfos == {SynthInfo(20, d, y) : d \in {1, 2}, y \in {<<0, 1>>, <<3, 4>>}}

\* driftvec /= np.sum(driftvec**2)**0.5 on the view group[0].ovecs[1]: the
\* drift vector of the first member of every group becomes a unit vector
split_inplace(info, groups) ==
    [i \in DOMAIN info |->
        IF \E g \in DOMAIN groups : groups[g][1] = i
        THEN [info[i] EXCEPT !.ovecs[2] = <<UnitVec(@)[1] * FixedOne, UnitVec(@)[2] * FixedOne>>]
        ELSE info[i]]

\* v /= oversample for the two vectors of ivecs or ovecs
Oversampled(vecs) ==
    [r \in DOMAIN vecs |-> [c \in DOMAIN vecs[r] |-> vecs[r][c] \div oversample]]

\* ivec /= oversample; ovec /= oversample on group[0].ivecs and group[0].ovecs,
\* for every group handed to sim_scan_from_group
sim_inplace(info, groups) ==
    [i \in DOMAIN info |->
        IF \E g \in DOMAIN groups : groups[g][1] = i
        THEN [info[i] EXCEPT !.ivecs = Oversampled(@), !.ovecs = Oversampled(@)]
        ELSE info[i]]

SetMin(S) == CHOOSE x \in S : \A y \in S : x <= y
SetMax(S) == CHOOSE x \in S : \A y \in S : x >= y

\* what the synthetic scan of one group is built from: the total box of the
\* members and the oversampled vectors of the first member
sim_scan_from_group(info, group) ==
    [obox_tot |-> << [c \in 1..2 |-> SetMin({info[group[m]].obox[1][c] : m \in DOMAIN group})],
                     [c \in 1..2 |-> SetMax({info[group[m]].obox[2][c] : m \in DOMAIN group})] >>,
     ivec |-> Oversampled(info[group[1]].ivecs),
     ovec |-> Oversampled(info[group[1]].ovecs)]

SynthIdle ==
    /\ sy_pc = "idle"
    /\ sy_info = <<>>
    /\ sy_before = <<>>
    /\ sy_groups = <<>>
    /\ sy_splits = <<>>
    /\ sy_sims = <<>>

\* allinfo and groups = group_scans_by_scandirs(allinfo)
Synth_Group ==
    /\ sy_pc = "idle"
    /\ \E n \in 1..MaxScans : \E info \in [1..n -> SynthInfos] :
        /\ sy_info' = info
        /\ sy_before' = info
        /\ sy_groups' = group_scans_by_scandirs(info)
    /\ sy_pc' = "grouped"
    /\ UNCHANGED <<sy_splits, sy_sims>>
    /\ UNCHANGED notSynth

\* split_disjoint_scan_groups(groups), on the same groups each time
Synth_Split ==
    /\ sy_pc = "grouped"
    /\ Len(sy_splits) < MaxRuns
    /\ sy_splits' = Append(sy_splits, split_disjoint_scan_groups(sy_info, sy_groups))
    /\ sy_info' = split_inplace(sy_info, sy_groups)
    /\ UNCHANGED <<sy_pc, sy_before, sy_groups, sy_sims>>
    /\ UNCHANGED notSynth

\* [sim_scan_from_group(group, mapeq.area) for group in mygroups], on the
\* subgroups of the first split each time
Synth_Sim ==
    /\ sy_pc = "grouped"
    /\ Len(sy_splits) > 0
    /\ Len(sy_sims) < MaxRuns
    /\ LET subs == sy_splits[1]
       IN  /\ sy_sims' = Append(sy_sims,
                  [g \in DOMAIN subs |->
                      sim_scan_from_group(sy_info, subs[g])])
           /\ sy_info' = sim_inplace(sy_info, subs)
    /\ UNCHANGED <<sy_pc, sy_before, sy_groups, sy_splits>>
    /\ UNCHANGED notSynth

SynthNext == Synth_Group \/ Synth_Split \/ Synth_Sim

----------------------------------------------------------------------------
(* map_equation.py: PrecondCirculant and measure_corr_cyclic *)

\* the pixels of the area of the circulant preconditioner
CycPixels == 1..(NPix + 1)

\* the values of div^(-1/2) at a pixel
CycValues == {1, 2, 3}

\* Sref = S.copy(); S[...] = S[:,:,p[0],p[1]][:,:,None,None]: S after the
\* assignment, the value at p at every position
measure_overwrite(S, p) == [q \in DOMAIN S |-> S[p]]

CycIdle ==
    /\ cy_pc = "idle"
    /\ cy_S0 = <<>>
    /\ cy_S = <<>>
    /\ cy_pix = <<>>
    /\ cy_i = 0
    /\ cy_used = <<>>
    /\ cy_self = None
    /\ cy_mul = None

\* __init__: S = array_ops.eigpow(binned.div_map, -0.5, axes=[0,1]);
\* pix = pick_ref_points(binned.div_map[0,0], 3): distinct pixels
Cyc_init ==
    /\ cy_pc = "idle"
    /\ \E S \in [CycPixels -> CycValues], n \in 1..(NPix + 1) :
       \E pix \in [1..n -> CycPixels] :
        /\ \A a, b \in 1..n : a # b => pix[a] # pix[b]
        /\ cy_S0' = S
        /\ cy_S' = S
        /\ cy_pix' = pix
    /\ cy_pc' = "measuring"
    /\ UNCHANGED <<cy_i, cy_used, cy_self, cy_mul>>
    /\ UNCHANGED notCyc

\* measure_corr_cyclic, one turn of `for p in pixels`: the response Arow at p
\* is multiplied by S on the right and by Sref on the left
Cyc_measure ==
    /\ cy_pc = "measuring"
    /\ cy_i < Len(cy_pix)
    /\ LET p    == cy_pix[cy_i + 1]
           Sref == cy_S
           S1   == measure_overwrite(cy_S, p)
       IN  /\ cy_S' = S1
           /\ cy_used' = Append(cy_used, [left |-> Sref, right |-> S1])
    /\ cy_i' = cy_i + 1
    /\ UNCHANGED <<cy_pc, cy_S0, cy_pix, cy_self, cy_mul>>
    /\ UNCHANGED notCyc

\* __init__ after measure_corr_cyclic has returned: self.S, self.iC = S, iC
Cyc_store ==
    /\ cy_pc = "measuring"
    /\ cy_i = Len(cy_pix)
    /\ cy_self' = Some(cy_S)
    /\ cy_pc' = "built"
    /\ UNCHANGED <<cy_S0, cy_S, cy_pix, cy_i, cy_used, cy_mul>>
    /\ UNCHANGED notCyc

\* apply: m = array_ops.matmul(self.S, map, axes=[0,1]), and once more after
\* the division by iC in the Fourier domain
Cyc_apply ==
    /\ cy_pc = "built"
    /\ cy_mul' = cy_self
    /\ cy_pc' = "applied"
    /\ UNCHANGED <<cy_S0, cy_S, cy_pix, cy_i, cy_used, cy_self>>
    /\ UNCHANGED notCyc

CycNext == Cyc_init \/ Cyc_measure \/ Cyc_store \/ Cyc_apply

----------------------------------------------------------------------------
(* mapmaking.py SignalCut.__init__ and map_equation.py MapEquation.__init__:
   the junk ranges of the scans *)

\* the lists of cut sizes: one njunk >= 0 per scan, the scans being distinct
\* objects
JunkSizes == UNION {[1..n -> 0..MaxLen] : n \in 0..(MaxScans + 1)}

\* a range that starts again from the beginning of the previous one
SignalCut_cutrange_Overlap(cutrange, n) == <<cutrange[1], cutrange[1] + n>>

\* SignalCut.__init__: cutrange = [cutrange[1], cutrange[1]+mat.njunk]
SignalCut_cutrange(cutrange, n) == <<cutrange[2], cutrange[2] + n>>

\* MapEquation.__init__: d.cutrange = [njunk, njunk+d.pcut.njunk]
MapEquation_cutrange(njunk, n) == <<njunk, njunk + n>>

JunkIdle ==
    /\ ju_pc = "idle"
    /\ ju_cls = "none"
    /\ ju_sizes = <<>>
    /\ ju_ranges = <<>>
    /\ ju_cutrange = <<0, 0>>
    /\ ju_run = 0
    /\ ju_njunk = None

\* __init__ up to the loop: cutrange = [0,0] in SignalCut, njunk = 0 in
\* MapEquation
Junk_Begin ==
    /\ ju_pc = "idle"
    /\ \E cls \in {"SignalCut", "MapEquation"}, sizes \in JunkSizes :
        /\ ju_cls' = cls
        /\ ju_sizes' = sizes
    /\ ju_ranges' = <<>>
    /\ ju_cutrange' = <<0, 0>>
    /\ ju_run' = 0
    /\ ju_pc' = "loop"
    /\ UNCHANGED ju_njunk
    /\ UNCHANGED notJunk

\* SignalCut.__init__, one turn of `for scan in scans`:
\* self.data[scan] = [mat, cutrange]
SignalCut_Scan ==
    /\ ju_pc = "loop"
    /\ ju_cls = "SignalCut"
    /\ Len(ju_ranges) < Len(ju_sizes)
    /\ LET n  == ju_sizes[Len(ju_ranges) + 1]
           cr == SignalCut_cutrange(ju_cutrange, n)
       IN  /\ ju_cutrange' = cr
           /\ ju_ranges' = Append(ju_ranges, cr)
    /\ UNCHANGED <<ju_pc, ju_cls, ju_sizes, ju_run, ju_njunk>>
    /\ UNCHANGED notJunk

\* MapEquation.__init__, one turn of `for scan in scans`:
\* njunk = d.cutrange[1]; data.append(d)
MapEquation_Scan ==
    /\ ju_pc = "loop"
    /\ ju_cls = "MapEquation"
    /\ Len(ju_ranges) < Len(ju_sizes)
    /\ LET n  == ju_sizes[Len(ju_ranges) + 1]
           cr == MapEquation_cutrange(ju_run, n)
       IN  /\ ju_run' = cr[2]
           /\ ju_ranges' = Append(ju_ranges, cr)
    /\ UNCHANGED <<ju_pc, ju_cls, ju_sizes, ju_cutrange, ju_njunk>>
    /\ UNCHANGED notJunk

\* after the loop: self.njunk = cutrange[1] in SignalCut, self.njunk = njunk
\* in MapEquation
Junk_End ==
    /\ ju_pc = "loop"
    /\ Len(ju_ranges) = Len(ju_sizes)
    /\ ju_njunk' = Some(IF ju_cls = "SignalCut" THEN ju_cutrange[2] ELSE ju_run)
    /\ ju_pc' = "done"
    /\ UNCHANGED <<ju_cls, ju_sizes, ju_ranges, ju_cutrange, ju_run>>
    /\ UNCHANGED notJunk

JunkNext == Junk_Begin \/ SignalCut_Scan \/ MapEquation_Scan \/ Junk_End

----------------------------------------------------------------------------
(* The specifications *)

AllIdle == RangeIdle /\ EqsysIdle /\ LinsysIdle /\ ScanIdle /\ GroupIdle
    /\ PreconIdle /\ MaskIdle /\ SubmapIdle /\ RobinIdle /\ CollIdle /\ LevelsIdle /\ PairIdle /\ SynthIdle /\ CycIdle /\ JunkIdle

RangeInit == AllIdle

EqsysInit == AllIdle

LinsysInit == AllIdle

ScanInit == AllIdle

GroupInit == AllIdle

PreconInit == AllIdle

MaskInit == AllIdle

SubmapInit == AllIdle

RobinInit == AllIdle

CollInit == AllIdle

LevelsInit == AllIdle

PairInit == AllIdle

SynthInit == AllIdle

CycInit == AllIdle

JunkInit == AllIdle

RangeNext == RL_FromMask \/ RL_FromRanges \/ RL_Slice \/ RL_Invert

SpecRange == RangeInit /\ [][RangeNext]_vars

SpecEqsys == EqsysInit /\ [][EqsysNext]_vars

SpecLinsys == LinsysInit /\ [][LinsysNext]_vars

SpecScan == ScanInit /\ [][ScanNext]_vars

SpecGroup == GroupInit /\ [][GroupNext]_vars

SpecPrecon == PreconInit /\ [][PreconNext]_vars

SpecMask == MaskInit /\ [][MaskNext]_vars

SpecSubmap == SubmapInit /\ [][SubmapNext]_vars

SpecRobin == RobinInit /\ [][RobinNext]_vars

SpecColl == CollInit /\ [][CollNext]_vars

SpecLevels == LevelsInit /\ [][LevelsNext]_vars

SpecPair == PairInit /\ [][PairNext]_vars

SpecSynth == SynthInit /\ [][SynthNext]_vars

SpecCyc == CycInit /\ [][CycNext]_vars

SpecJunk == JunkInit /\ [][JunkNext]_vars

----------------------------------------------------------------------------
(* Properties of the Rangelist *)

LastOp == IF Len(rlOps) = 0 THEN "none" ELSE rlOps[Len(rlOps)]
LastTwoInverts ==
    /\ Len(rlOps) >= 2
    /\ rlOps[Len(rlOps)] = "invert"
    /\ rlOps[Len(rlOps) - 1] = "invert"

\* the intervals are sorted by start, do not overlap and lie in [0, n]
SortedDisjointBounded(R) ==
    /\ \A k \in DOMAIN R.ranges :
          0 <= R.ranges[k][1] /\ R.ranges[k][1] <= R.ranges[k][2] /\ R.ranges[k][2] <= R.n
    /\ \A k \in 1..(Len(R.ranges) - 1) :
          /\ R.ranges[k][1] <= R.ranges[k + 1][1]
          /\ R.ranges[k][2] <= R.ranges[k + 1][1]

\* and moreover no interval is empty
RangelistValid(R) ==
    /\ SortedDisjointBounded(R)
    /\ \A k \in DOMAIN R.ranges : R.ranges[k][1] < R.ranges[k][2]

\* and moreover no two intervals touch: the form mask2range produces
RangelistCanonical(R) ==
    /\ RangelistValid(R)
    /\ \A k \in 1..(Len(R.ranges) - 1) : R.ranges[k][2] < R.ranges[k + 1][1]

\* the events of the running (or last) call that concern scan s
IsOp(i, op, s) == eq_log[i].op = op /\ eq_log[i].scan = s

Before(j, op, s) == {i \in 1..(j - 1) : IsOp(i, op, s)}

C3_AbsentScanSilent ==
    eq_call.op = "A" =>
        \A j \in DOMAIN eq_log :
            LET e == eq_log[j] IN
            (e.sig > 0 /\ e.scan > 0 /\ ~InData(eq_cfg, e.sig, e.scan)) =>
                /\ ~e.chg
                /\ ~(j = Len(eq_log) /\ eq_err # "none")

\* C4: every temporary overwrite of scan state (scan.comps in
\* calc_crosslink_map, scan.noise in FilterBuddyPertod.__call__) is undone on
\* every exit path: whether the operation returns or raises, the comps and the
\* noise model of every scan equal their values before the call.
C4_OverwritesRestored ==
    sc_pc \in {"returned", "raised"} =>
        /\ sc_comps = sc_before.comps
        /\ sc_noise = sc_before.noise

\* C5: over any sequence of calc_b calls on the same scans, each scan's noise
\* model is replaced by the result of noise.update at most once.
C5_NoiseRefitOnce ==
    \A s \in DOMAIN eq_noise : eq_noise[s] <= 1

\* C6: an Eqsys whose signal list has a non-cut signal before the cut signal
\* is rejected with an error: it is never built, and A is never applied to it.
C6_BadOrderRejected ==
    eq_pc # "unbuilt" =>
        ~NonCutBeforeCut([k \in DOMAIN eq_cfg.signals |-> Kind(k)])

\* C7: for any Rangelist R and any slice s (any start, stop, non-zero step),
\* R[s].to_mask() equals R.to_mask()[s], element for element and in length.
C7_SliceMatchesDense ==
    LastOp = "slice" => to_mask(rl) = rlExpect

\* C8: for any dense boolean mask b of length n, Rangelist(b).to_mask() = b
\* and len(Rangelist(b)) = n.
C8_MaskRoundTrip ==
    (rlOrigin = "mask" /\ rlOps = <<>>) =>
        /\ to_mask(rl) = rlMask
        /\ RangelistLen(rl) = Len(rlMask)

\* a mask with True at index 0 and at index n-1 and a False between them
\* has been turned into a Rangelist of two intervals
C8_Witness ==
    /\ rlOrigin = "mask"
    /\ rlOps = <<>>
    /\ Len(rlMask) = 3
    /\ rlMask[1] /\ ~rlMask[2] /\ rlMask[3]
    /\ Len(rl.ranges) = 2

\* C9 as stated: for every Rangelist R whose intervals are sorted, disjoint
\* and bounded by n, R.invert().invert() equals R (same n, same intervals)
\* and R.sum() + R.invert().sum() = n.
C9_InvertInvolution_AsStated ==
    /\ (LastTwoInverts /\ SortedDisjointBounded(rlPrev2)) => rl = rlPrev2
    /\ (LastOp = "invert" /\ SortedDisjointBounded(rlPrev)) =>
            RangelistSum(rlPrev) + RangelistSum(rl) = rlPrev.n

\* C9 amended: R.invert().invert() equals R for every Rangelist whose
\* intervals are non-empty, sorted, bounded by n and separated by at least
\* one sample (no two touch); R.sum() + R.invert().sum() = n for every
\* Rangelist whose intervals are sorted, disjoint and bounded by n.
C9_InvertInvolution ==
    /\ (LastTwoInverts /\ RangelistCanonical(rlPrev2)) => rl = rlPrev2
    /\ (LastOp = "invert" /\ SortedDisjointBounded(rlPrev)) =>
            RangelistSum(rlPrev) + RangelistSum(rl) = rlPrev.n

\* a Rangelist of two separated intervals has been inverted twice
C9_Witness ==
    /\ LastTwoInverts
    /\ RangelistCanonical(rlPrev2)
    /\ Len(rlPrev2.ranges) = 2
    /\ Len(rlPrev.ranges) >= 1
    /\ rl = rlPrev2

\* C10: starting from a Rangelist built from a dense mask, after any
\* sequence of slicing and invert operations the intervals are sorted by
\* start, pairwise non-overlapping, non-empty and lie within [0, n].
C10_RangelistInvariant ==
    rlOrigin = "mask" => RangelistValid(rl)

\* the places of the subgroup list: <<subgroup, position in it>>
SubPlaces == UNION {{<<g, k>> : k \in DOMAIN gr_sub[g]} : g \in DOMAIN gr_sub}

\* C11: after group_scans_by_scandirs and split_disjoint_scan_groups every
\* input scan appears in exactly one subgroup, no subgroup is empty, and the
\* total number of members equals the number of input scans.
C11_GroupingPartition ==
    gr_pc = "split" =>
        /\ \A i \in DOMAIN gr_info :
                Cardinality({p \in SubPlaces : gr_sub[p[1]][p[2]] = i}) = 1
        /\ \A g \in DOMAIN gr_sub : Len(gr_sub[g]) > 0
        /\ Cardinality(SubPlaces) = Len(gr_info)

\* C11 witness: three scans in two groups, one of which was split in two
C11_Witness ==
    /\ gr_pc = "split"
    /\ Len(gr_info) = 3
    /\ Len(gr_groups) = 2
    /\ Len(gr_sub) = 3

\* the group a scan was put in
GroupOf(i) == CHOOSE g \in DOMAIN gr_groups : \E k \in DOMAIN gr_groups[g] : gr_groups[g][k] = i

\* from and to of scan i along the drift direction of its group
GroupPos(i) == DriftPos(gr_info[i], UnitVec(gr_info[gr_groups[GroupOf(i)][1]].ovecs[2]))

\* the members of the group of the scan at place p that the walk met before it
EarlierInGroup(p) ==
    {gr_sub[q[1]][q[2]] : q \in {r \in SubPlaces :
        /\ GroupOf(gr_sub[r[1]][r[2]]) = GroupOf(gr_sub[p[1]][p[2]])
        /\ (r[1] < p[1] \/ (r[1] = p[1] /\ r[2] < p[2]))}}

\* whether the start of scan i lies beyond the end of every scan in S
BeyondAll(i, S) == \A j \in S : GroupPos(i)[1] > GroupPos(j)[2]

\* C12: every subgroup is drift-contiguous: its members are in order of drift
\* start, each member after the first starts no later than the largest end of
\* the members before it in the subgroup, and a new subgroup is started exactly
\* when a member's start exceeds the largest end of all earlier members of the group.
C12_DriftContiguous ==
    gr_pc = "split" =>
        \A p \in SubPlaces :
            LET i    == gr_sub[p[1]][p[2]]
                same == {gr_sub[p[1]][k] : k \in 1..(p[2] - 1)}
            IN  /\ \A j \in EarlierInGroup(p) : GroupPos(j)[1] <= GroupPos(i)[1]
                /\ p[2] > 1 => ~BeyondAll(i, same)
                /\ EarlierInGroup(p) # {} => (p[2] = 1 <=> BeyondAll(i, EarlierInGroup(p)))

\* C12 witness: a group of three scans split into a subgroup of two
\* overlapping scans and a subgroup of one
C12_Witness ==
    /\ gr_pc = "split"
    /\ Len(gr_groups) = 1
    /\ Len(gr_groups[1]) = 3
    /\ Len(gr_sub) = 2
    /\ Len(gr_sub[1]) = 2

\* C13: any two scans of one group (not only a member and the seed) satisfy
\* the direction tolerance in both directions, and their scan-axis positional
\* separation is within postol of the bounding-box span.
C13_PairwiseTolerance ==
    gr_pc = "grouped" =>
        \A g \in DOMAIN gr_groups : \A k, l \in DOMAIN gr_groups[g] :
            LET a == gr_info[gr_groups[g][k]]
                b == gr_info[gr_groups[g][l]]
            IN  /\ ~VecMismatch(a, b)
                /\ ~VecMismatch(b, a)
                /\ ~PosMismatch(a, b)

\* C14: the hitcount preconditioner divides the T component (index 0) at each
\* pixel by max(hits, 1) and leaves every non-T component exactly as it was.
C14_HitcountOnlyT ==
    (pr_pc = "applied" /\ pr_kind \in {"PreconMapHitcount", "PreconDmapHitcount"}) =>
        \A p \in Pixels :
            /\ pr_out[1][p] * Max(pr_div[p], 1) = pr_in[1][p]
            /\ \A c \in Comps \ {1} : pr_out[c][p] = pr_in[c][p]

\* C15: PreconCut divides every entry whose div is non-zero by div, and every
\* entry whose div is zero passes through unchanged.
C15_CutZeroPassThrough ==
    (pr_pc = "applied" /\ pr_kind = "PreconCut") =>
        \A i \in CutIdx :
            /\ pr_div[i] # 0 => pr_out[i] * pr_div[i] = pr_in[i]
            /\ pr_div[i] = 0 => pr_out[i] = pr_in[i]

\* the condition number of the 2x2 polarization sub-block of a diagonal block
PolCondition(block) ==
    Ratio(IF block[2] >= block[3] THEN block[2] ELSE block[3],
          IF block[2] >= block[3] THEN block[3] ELSE block[2])

\* C16: for every pixel the T mask entry is true iff div[0,0] > 0, and each
\* polarization mask entry is true iff the condition number of the pixel's 2x2
\* polarization sub-block is >= 1 and < precond_condition_lim; the T entry and
\* the polarization entries are decided independently of each other.
C16_MaskPerComponent ==
    mk_pc = "masked" =>
        \A p \in Pixels :
            /\ mk_mask[1][p] <=> mk_blocks[p][1] > 0
            /\ \A c \in Comps \ {1} :
                mk_mask[c][p] <=>
                    /\ RatioGE(PolCondition(mk_blocks[p]), 1)
                    /\ RatioLT(PolCondition(mk_blocks[p]), precond_condition_lim)

\* the steps of calc_b that failed
FailedSteps == {j \in DOMAIN eq_log : eq_log[j].op \in {"read_failed", "update_failed"}}

\* C17: if reading a scan's samples or refitting its noise model fails during
\* calc_b, the failure is propagated to the caller, the failing step is not
\* retried, no later scan is processed, and Eqsys.b keeps the value it had
\* before the call.
C17_FailurePropagates ==
    (eq_call.op = "b" /\ FailedSteps # {}) =>
        /\ eq_pc = "raised"
        /\ eq_err \in {"ReadError", "FitError"}
        /\ FailedSteps = {Len(eq_log)}
        /\ \A j \in DOMAIN eq_log : eq_log[j].scan <= eq_log[Len(eq_log)].scan
        /\ eq_b = eq_call.b0

\* C17 witness: b was computed by an earlier call, and the refit of the first
\* of two scans fails in a later one
C17_Witness ==
    /\ eq_call.op = "b"
    /\ eq_err = "FitError"
    /\ eq_si = 1
    /\ eq_cfg.nscans = 2
    /\ eq_b # None

----------------------------------------------------------------------------
(* Properties of PrecondSubmap.apply *)

\* C18: PrecondSubmap.apply ends after exactly nmax = 20 steps of its inner CG
\* solver, whatever the solver's residual is, and returns the map part of the
\* inner solution as the new map.
C18_FixedStepCount ==
    /\ sb_i <= nmax
    /\ (sb_pc = "stepping" /\ sb_i < nmax) => ENABLED PrecondSubmap_step
    /\ sb_pc = "returned" =>
        /\ sb_i = nmax
        /\ nmax = 20
        /\ sb_out = Some([map |-> DofUnzip(sb_mask, sb_x).map, junk |-> sb_in.junk])

\* C18 witness: apply has returned after a step that left a small residual
\* and with a large residual at the end
C18_Witness ==
    /\ sb_pc = "returned"
    /\ sb_small
    /\ sb_err = "large"
    /\ sb_out # None
    /\ sb_out[1].map = OneMap
    /\ sb_in.map = ZeroMap

----------------------------------------------------------------------------
(* Properties of the ownership of scan groups *)

RobinAssigned == {r \in RobinRanks : ro_pc[r] = "assigned"}

\* the 0-based positions of `groups` that rank r holds in mygroups
RobinOwned(r) ==
    {p \in 0..(Len(ro_groups[r]) - 1) :
        \E j \in DOMAIN ro_mine[r] : ro_mine[r][j] = ro_groups[r][p + 1]}

\* C19: for any number of ranks and of subgroups every rank derives the same
\* ordered subgroup list, rank r owns exactly the subgroups at positions
\* r, r+size, r+2*size, ... in that order, and every subgroup is owned by
\* exactly one rank.
C19_RoundRobin ==
    /\ \A r, q \in RobinAssigned : ro_groups[r] = ro_groups[q]
    /\ \A r \in RobinAssigned :
        /\ RobinOwned(r) = {p \in 0..(Len(ro_groups[r]) - 1) : p % ro_size = r}
        /\ Len(ro_mine[r]) = Cardinality(RobinOwned(r))
        /\ \A j \in DOMAIN ro_mine[r] : ro_mine[r][j] = ro_groups[r][r + (j - 1) * ro_size + 1]
    /\ (ro_size > 0 /\ RobinAssigned = RobinRanks) =>
        \A p \in 0..(Len(ro_groups[0]) - 1) :
            Cardinality({r \in RobinRanks : p \in RobinOwned(r)}) = 1

\* C19 witness: two ranks, the first without a scan of its own, three
\* subgroups: the first rank owns two of them, the second one
C19_Witness ==
    /\ RobinAssigned = RobinRanks
    /\ ro_size = 2
    /\ ro_local[0] = <<>>
    /\ Len(ro_groups[0]) = 3
    /\ Len(ro_mine[0]) = 2
    /\ Len(ro_mine[1]) = 1

----------------------------------------------------------------------------
(* Properties of the collectives *)

RECURSIVE DropZeros(_)
\* a sequence of numbers without its zeros
DropZeros(s) ==
    IF Len(s) = 0 THEN <<>>
    ELSE IF s[1] = 0 THEN DropZeros(Tail(s)) ELSE <<s[1]>> \o DropZeros(Tail(s))

\* the positions of the shared signals of a list, in list order
SharedSignals(signals) ==
    DropZeros([k \in DOMAIN signals |->
        IF signals[k] \in {"map", "mapfast", "buddies", "phase"} THEN k ELSE 0])

\* a rank blocked in a collective that another rank will never enter
WaitsForever(r) ==
    /\ co_pc[r] = "waiting"
    /\ \E q \in CollRanks : co_pc[q] = "raised" /\ Len(co_log[q]) < Len(co_log[r])

\* C20: for ranks holding different numbers of local scans (zero included), an
\* invocation of Eqsys.A or Eqsys.calc_b issues the same sequence of all-reduce
\* calls on every rank, one per shared signal in signal-list order, and no rank
\* waits forever in a collective that another rank never enters.
C20_CollectivesEveryRank ==
    /\ \A r \in CollRanks : ~WaitsForever(r)
    /\ \A r \in CollRanks : co_pc[r] = "returned" =>
        LET reduces == DropZeros([j \in DOMAIN co_log[r] |->
                           IF co_log[r][j].call = "Allreduce" THEN co_log[r][j].sig ELSE 0])
        IN  reduces = SharedSignals(co_cfg.signals)

----------------------------------------------------------------------------
(* Properties of the coarser system *)

\* C21: the coarser system is built lazily and once: not during construction of
\* the fine system, on the first access through upsys / up / down, every later
\* access returns that same instance, and it is a LinearSystemMap over every
\* scan decimated by 2 in samples and the area decimated by 2 along both axes.
C21_UpsysLazyOnce ==
    /\ (up_pc = "built" /\ up_n = 0) => (Len(up_heap) = 1 /\ up_heap[1].upsys = None)
    /\ \A i \in DOMAIN up_heap :
        /\ (up_heap[i].upsys = None) = (up_first[i] = None)
        /\ up_heap[i].upsys # None =>
            LET c == up_heap[up_heap[i].upsys[1]]
            IN  /\ up_heap[i].upsys = up_first[i]
                /\ c.type = "LinearSystemMap"
                /\ c.scans = [s \in DOMAIN up_heap[i].scans |-> (up_heap[i].scans[s] + 1) \div 2]
                /\ c.area = <<(up_heap[i].area[1] + 1) \div 2, (up_heap[i].area[2] + 1) \div 2>>
    /\ up_last.sys # 0 =>
        \A k \in DOMAIN up_last.reads : Some(up_last.reads[k]) = up_first[up_last.sys]
    /\ Len(up_heap) <= 1 + Cardinality({i \in DOMAIN up_heap : up_first[i] # None})

\* C21 witness: the coarser system of the fine system was reached a second
\* time, through up, after an earlier access had built it
C21_Witness ==
    /\ up_n >= 2
    /\ up_last = [sys |-> 1, via |-> "up", reads |-> <<2, 2, 2, 2>>]
    /\ Len(up_heap) = 2
    /\ up_heap[1].scans = <<3, 4>>
    /\ up_heap[2].scans = <<2, 2>>
    /\ up_heap[2].area = <<1, 2>>

----------------------------------------------------------------------------
(* Properties of the order of the steps in Eqsys.A and Eqsys.calc_b *)

\* the events of the running (or last) call with this operation, signal and scan
Calls(op, k, s) == {i \in DOMAIN eq_log : eq_log[i].op = op /\ eq_log[i].sig = k /\ eq_log[i].scan = s}

----------------------------------------------------------------------------
(* Properties of the loops over scans *)

\* the call at j is inside an open precompute of its own scan
InsideBracket(j) ==
    \E i \in 1..(j - 1) :
        /\ pa_log[i].op = "precompute"
        /\ pa_log[i].scan = pa_log[j].scan
        /\ \A m \in (i + 1)..(j - 1) : pa_log[m].op # "free"

\* C23: in every operation that loops over scans with a signal, precompute
\* and free are paired: each free() is preceded by a precompute for the same
\* scan with no other free in between, and each forward/backward call on a
\* scan happens between that scan's precompute and free.
C23_PrecomputeFreePaired ==
    \A j \in DOMAIN pa_log :
        pa_log[j].op \in {"free", "forward", "backward"} => InsideBracket(j)

\* the events of the running (or last) call with this operation and signal
SignalCalls(op, k) == {i \in DOMAIN eq_log : eq_log[i].op = op /\ eq_log[i].sig = k}

CalcBSteps ==
    LET step(op, k) == [op |-> op, sig |-> k]
    IN  [i \in DOMAIN eq_cfg.filters |-> step("filter", 0)]
        \o [i \in DOMAIN eq_cfg.weights |-> step("weight", 0)]
        \o << step("update", 0) >>
        \o [i \in DOMAIN eq_cfg.filters2 |-> step("filter2", 0)]
        \o << step("noise", 0) >>
        \o [i \in DOMAIN eq_cfg.weights |-> step("weight", 0)]
        \o [k \in 1..NSig |-> step("backward", k)]

\* what the running (or last) call did on scan s, precompute and free left out
StepsOn(s) ==
    LET keep(e) == e.scan = s /\ e.op \in {"filter", "weight", "update", "filter2",
                                            "noise", "backward"}
        evs == SelectSeq(eq_log, keep)
    IN  [i \in DOMAIN evs |-> [op |-> evs[i].op, sig |-> evs[i].sig]]

\* the last n entries of a sequence
LastN(seq, n) == SubSeq(seq, Len(seq) - n + 1, Len(seq))

\* what calc_b has applied to the tod of a scan once the weights are undone
CalcBApplied(s) ==
    eq_cfg.filters \o eq_cfg.weights \o eq_cfg.filters2
        \o << <<"N", eq_noise[s]>> >>
        \o [i \in DOMAIN eq_cfg.weights |-> eq_cfg.weights[Len(eq_cfg.weights) + 1 - i]]

\* C25: in Eqsys.calc_b the per-scan steps are: every filter in filters (list
\* order), every weight (list order), the noise refit via noise.update, every
\* filter in filters2, the application of the refitted N^-1, every weight in
\* reverse list order, then the backward projection onto each signal in
\* signal-list order; filters and filters2 are never invoked by Eqsys.A.
C25_CalcBStepOrder ==
    /\ eq_call.op = "b" =>
        /\ \A s \in Scans :
            /\ Len(StepsOn(s)) <= Len(CalcBSteps)
            /\ StepsOn(s) = SubSeq(CalcBSteps, 1, Len(StepsOn(s)))
        /\ eq_pc = "b_PT" =>
            /\ Len(eq_tod) >= Len(CalcBApplied(eq_si))
            /\ LastN(eq_tod, Len(CalcBApplied(eq_si))) = CalcBApplied(eq_si)
            /\ eq_noise[eq_si] >= 1
        /\ eq_pc = "returned" => \A s \in Scans : StepsOn(s) = CalcBSteps
    /\ eq_call.op = "A" =>
        \A i \in DOMAIN eq_log : eq_log[i].op \notin {"filter", "filter2", "update"}

\* C25 witness: calc_b has returned for two scans with two weights, two
\* filters and two second filters
C25_Witness ==
    /\ eq_call.op = "b"
    /\ eq_pc = "returned"
    /\ eq_cfg.nscans = 2
    /\ eq_cfg.weights = <<"w1", "w2">>
    /\ Len(StepsOn(2)) = 10 + NSig

----------------------------------------------------------------------------
(* Properties of the scan analyses under grouping and synthesis *)

\* C26: scan grouping and effective-scan synthesis do not modify the scan
\* analyses they read: after split_disjoint_scan_groups and after
\* sim_scan_from_group every member's ibox, obox, ivecs and ovecs equal their
\* values before the call, so a second run of either function on the same
\* groups yields the same subgroups and the same synthetic scan.
C26_AnalysesUnchanged ==
    /\ sy_info = sy_before
    /\ \A r \in DOMAIN sy_splits : sy_splits[r] = sy_splits[1]
    /\ \A r \in DOMAIN sy_sims : sy_sims[r] = sy_sims[1]

----------------------------------------------------------------------------
(* Properties of the circulant preconditioner *)

\* C27: the matrix S that PrecondCirculant.apply multiplies by is the per-pixel
\* div^(-1/2) computed in the constructor: measure_corr_cyclic does not change
\* S, and the response measured at each reference pixel is whitened with the S
\* value of that pixel's own position.
C27_SPerPixel ==
    /\ cy_pc \in {"measuring", "built", "applied"} => cy_S = cy_S0
    /\ cy_pc = "applied" => cy_mul = Some(cy_S0)
    /\ \A k \in DOMAIN cy_used :
        /\ cy_used[k].left = cy_S0
        /\ \A q \in CycPixels : cy_used[k].right[q] = cy_S0[cy_pix[k]]

----------------------------------------------------------------------------
(* Properties of the junk ranges *)

\* the sum of the first k cut sizes
RECURSIVE JunkBefore(_, _)
JunkBefore(sizes, k) == IF k = 0 THEN 0 ELSE JunkBefore(sizes, k - 1) + sizes[k]

\* the integers of the half-open range r
HalfOpen(r) == {x \in 0..((MaxScans + 2) * (MaxLen + 1)) : r[1] <= x /\ x < r[2]}

\* C29: for any list of scans with cut sizes njunk_k >= 0, the ranges that
\* SignalCut and MapEquation assign at initialization are half-open, pairwise
\* disjoint and consecutive in insertion order, range_k = [sum of njunk_j for
\* j < k, that sum + njunk_k), and the total njunk is the end of the last range
\* (0 for an empty scan list).
C29_JunkRanges ==
    ju_pc = "done" =>
        /\ Len(ju_ranges) = Len(ju_sizes)
        /\ \A k \in DOMAIN ju_ranges :
            /\ ju_ranges[k] = <<JunkBefore(ju_sizes, k - 1), JunkBefore(ju_sizes, k - 1) + ju_sizes[k]>>
            /\ Cardinality(HalfOpen(ju_ranges[k])) = ju_sizes[k]
        /\ \A j, k \in DOMAIN ju_ranges :
            j # k => HalfOpen(ju_ranges[j]) \cap HalfOpen(ju_ranges[k]) = {}
        /\ ju_njunk = Some(IF ju_ranges = <<>> THEN 0 ELSE ju_ranges[Len(ju_ranges)][2])

\* C29 witness: three scans with positive cut sizes got their ranges, in
\* SignalCut
C29_Witness ==
    /\ ju_pc = "done"
    /\ ju_cls = "SignalCut"
    /\ Len(ju_sizes) = MaxScans + 1
    /\ \A k \in DOMAIN ju_sizes : ju_sizes[k] > 0
    /\ ju_njunk = Some(JunkBefore(ju_sizes, Len(ju_sizes)))

\* C29 witness for MapEquation and for the empty scan list
C29_WitnessEmpty ==
    /\ ju_pc = "done"
    /\ ju_cls = "MapEquation"
    /\ ju_sizes = <<>>
    /\ ju_njunk = Some(0)

----------------------------------------------------------------------------
(* Properties of calc_b with a caller-supplied TOD *)

\* C28: when calc_b is given a caller-supplied TOD, the caller's array is left
\* unchanged, and every scan is processed starting from the same supplied data:
\* what was done to the data for one scan is not in the data of the next.
C28_ItodUntouched ==
    (eq_pc \notin {"idle", "returned", "raised"} /\ eq_call.op = "b" /\ eq_call.itod) =>
        /\ eq_itod = <<"itod">>
        /\ eq_pc = "b_filter" => eq_tod = <<"itod">>

----------------------------------------------------------------------------
(* Properties of unit-step slices of a Rangelist *)

\* the last operation was R[a:b] with step 1 and 0 <= a <= b <= n
UnitSlice ==
    /\ LastOp = "slice"
    /\ rlSel # None
    /\ rlSel[1].step = 1
    /\ rlSel[1].start # None
    /\ rlSel[1].stop # None
    /\ rlSel[1].start[1] <= rlSel[1].stop[1]
    /\ rlSel[1].stop[1] <= rlPrev.n

\* C30: for every Rangelist R of length n, including one with no intervals, and
\* every unit-step slice a:b with 0 <= a <= b <= n, R[a:b] has length b-a and
\* R[a:b].to_mask() equals R.to_mask()[a:b].
C30_UnitSlice ==
    UnitSlice =>
        /\ RangelistLen(rl) = rlSel[1].stop[1] - rlSel[1].start[1]
        /\ to_mask(rl) = rlExpect

\* C30 restricted to Rangelists that have an interval
C30_UnitSliceOfIntervals ==
    (UnitSlice /\ rlPrev.ranges # <<>>) =>
        /\ RangelistLen(rl) = rlSel[1].stop[1] - rlSel[1].start[1]
        /\ to_mask(rl) = rlExpect

====
